---- MODULE Spec2Model ----
(***************************************************************************)
(* Got Your Back (gyb): the ledger (msg-db.sqlite), the batch callbacks    *)
(* that write it, the backed-up lookup that repairs it, and the remote     *)
(* call executor callGAPI with its backoff.                                *)
(*                                                                         *)
(* Two specifications share the module:                                    *)
(*   Spec      the ledger under backup / restore runs                      *)
(*   SpecCall  one callGAPI call                                           *)
(***************************************************************************)
EXTENDS Integers, Sequences, FiniteSets, Bags, TLC

VARIABLES
  ledger,        \* the connection's view of msg-db.sqlite: messages, labels, uids, restored_messages
  committed,     \* the rows as of the last sqlconn.commit()
  files,         \* the file names that exist in the backup folder
  backup_count,  \* actions.py global backup_count of the running process
  remote,        \* the remote mailbox: message id -> set of label ids
  run,           \* the running action and its position
  hist,          \* what earlier runs left behind (read by the properties only)
  call,          \* one callGAPI call: arguments, loop counter, position, outcome
  paging,        \* one callGAPIpages call: the remote's pages, pageToken, all_pages
  dir,           \* the label caches of actions.py and the remote's labels
  boot           \* main.py from the opening of msg-db.sqlite to the action

ledgerVars == <<ledger, committed, files, backup_count, remote, run, hist>>
callVars == <<call>>
vars == <<ledger, committed, files, backup_count, remote, run, hist, call,
          paging, dir, boot>>

----------------------------------------------------------------------------
(* Bounds of the model *)

MaxMsgs == 3       \* messages of the remote mailbox
MaxLabels == 2     \* label ids
MaxRuns == 3       \* runs of the program against one backup folder
BatchSize == 2     \* options.batch_size
MaxPages == 3      \* pages of one remote listing
MaxItems == 2      \* items of one page
MaxNames == 1      \* names (ids) passed to one label lookup
MaxLookups == 3    \* label lookups of one run

\* The id of the k-th message of the mailbox: every third id is a text that
\* is no decimal integer (as Gmail's hexadecimal ids mostly are), the others
\* are integer texts.
IdOf(k) == IF k % 3 = 0 THEN <<"hex", k>> ELSE <<"int", k>>
MsgIds == {IdOf(k) : k \in 1..MaxMsgs}
Labels == 1..MaxLabels

None == "None"          \* None where a string may stand
NoneRec == [none |-> TRUE]   \* None where a record may stand

----------------------------------------------------------------------------
(* The ledger: database.py initializeDB *)

\* CREATE TABLE messages(message_num INTEGER PRIMARY KEY, ...): a value bound
\* to message_num is stored only if its text converts to an integer; any
\* other text is refused with "datatype mismatch", which the sqlite3 module
\* raises as sqlite3.IntegrityError.
IsIntegerText(id) == id[1] = "int"

\* The tables as initializeDB leaves them: no rows.  Each table is the bag of
\* its rows, so that a row stored twice would show.
EmptyLedger ==
  [messages |-> EmptyBag, labels |-> EmptyBag, uids |-> EmptyBag,
   restored_messages |-> EmptyBag]

MessageRow(message_num, message_filename) ==
  [message_num |-> message_num, message_filename |-> message_filename]

\* SELECT ... FROM messages WHERE message_num = ?
MessageRows(L, message_num) ==
  {r \in BagToSet(L.messages) : r.message_num = message_num}

MessageNums(L) == {r.message_num : r \in BagToSet(L.messages)}

\* As InsertMessageFails, for a messages table without the primary key.
InsertMessageFails_no_key(L, message_num) == ~IsIntegerText(message_num)

\* INSERT INTO messages (message_num, message_filename, ...) raises
\* sqlite3.IntegrityError on a datatype mismatch or a duplicate primary key.
InsertMessageFails(L, message_num) ==
  \/ ~IsIntegerText(message_num)
  \/ MessageRows(L, message_num) # {}

\* INSERT INTO labels under CREATE UNIQUE INDEX labelidx ON labels
\* (message_num, label): IntegrityError when the pair is there already.
InsertLabelFails(L, message_num, label) ==
  BagIn(<<message_num, label>>, L.labels)

\* DELETE FROM <table> WHERE message_num = ?, for each table's row shape.
DeleteMessageRows(B, message_num) ==
  LET keep == {r \in BagToSet(B) : r.message_num # message_num}
  IN [r \in keep |-> B[r]]

\* As DeletePairRows, but without the WHERE clause: every row goes.
DeletePairRows_every_row(B, message_num) == EmptyBag

DeletePairRows(B, message_num) ==
  LET keep == {p \in BagToSet(B) : p[1] # message_num}
  IN [p \in keep |-> B[p]]

\* File names the callbacks write.
EmlFile(message_num) == <<"eml", message_num>>
ChatFile(message_num) == <<"chat", message_num>>
ReqFile(request_id) == <<"req", request_id>>

----------------------------------------------------------------------------
(* actions.py: the per-item callbacks.  W is [ledger, files, backup_count,    *)
(* raised]: raised says that an error left the callback.  response is None   *)
(* or [id, labelIds]; exception is None or an error.                         *)

\* for label in labels: INSERT INTO labels ..., IntegrityError passed per label
InsertLabelsTolerant(L, message_num, labelIds) ==
  LET fresh == {l \in labelIds : ~InsertLabelFails(L, message_num, l)}
  IN [L EXCEPT !.labels = @ (+) SetToBag({<<message_num, l>> : l \in fresh})]

\* As refresh_message, but the label rows are deleted and not written again.
refresh_message_clears(W, request_id, response, exception) ==
  IF exception # None THEN W
  ELSE IF response = NoneRec THEN [W EXCEPT !.raised = TRUE]
  ELSE [W EXCEPT !.ledger.labels = DeletePairRows(@, response.id)]

\* response['id'] of an empty response (None) is a TypeError.
refresh_message(W, request_id, response, exception) ==
  IF exception # None THEN W
  ELSE IF response = NoneRec THEN [W EXCEPT !.raised = TRUE]
  ELSE LET message_num == response.id
           cleared == [W.ledger EXCEPT !.labels = DeletePairRows(@, message_num)]
       IN [W EXCEPT !.ledger = InsertLabelsTolerant(cleared, message_num, response.labelIds)]

\* As InsertBackedUp, but the DELETE FROM labels has no WHERE clause.
InsertBackedUp_clears_all(L, message_num, filename, labelIds) ==
  IF InsertMessageFails(L, message_num) THEN L
  ELSE LET added == [L EXCEPT !.messages = @ (+) SetToBag({MessageRow(message_num, filename)})]
       IN [added EXCEPT !.labels = SetToBag({<<message_num, l>> : l \in labelIds})]

\* The ledger writes of backup_chat and backup_message: the three statements
\* of the try block, left at the first sqlite3.IntegrityError.
InsertBackedUp(L, message_num, filename, labelIds) ==
  IF InsertMessageFails(L, message_num) THEN L
  ELSE LET added == [L EXCEPT !.messages = @ (+) SetToBag({MessageRow(message_num, filename)})]
           cleared == [added EXCEPT !.labels = DeletePairRows(@, message_num)]
       IN [cleared EXCEPT !.labels = @ (+) SetToBag({<<message_num, l>> : l \in labelIds})]

backup_chat(W, request_id, response, exception) ==
  IF exception # None THEN W
  ELSE IF response = NoneRec THEN W
  ELSE LET message_num == response.id
           filename == ChatFile(message_num)
       IN [ledger |-> InsertBackedUp(W.ledger, message_num, filename, response.labelIds),
           files |-> W.files \cup {filename},
           backup_count |-> W.backup_count + 1,
           raised |-> FALSE]

backup_message(W, request_id, response, exception) ==
  IF exception # None THEN W
  ELSE IF response = NoneRec THEN W
  ELSE LET message_num == response.id
           filename == IF request_id = message_num THEN EmlFile(message_num)
                       ELSE ReqFile(request_id)
       IN [ledger |-> InsertBackedUp(W.ledger, message_num, filename, response.labelIds),
           files |-> W.files \cup {filename},
           backup_count |-> W.backup_count + 1,
           raised |-> FALSE]

\* restored_messages(message_num), message_num a unique key: the table is
\* created by the restore driver, which is not part of src/.
InsertRestoredFails(L, message_num) == BagIn(message_num, L.restored_messages)

InsertRestored(L, message_num) ==
  [L EXCEPT !.restored_messages = @ (+) SetToBag({message_num})]

\* As restored_message, but without the early return on an exception.
restored_message_marks_failed(W, request_id, response, exception) ==
  IF InsertRestoredFails(W.ledger, request_id) THEN W
  ELSE [W EXCEPT !.ledger = InsertRestored(@, request_id)]

restored_message(W, request_id, response, exception) ==
  IF exception # None THEN W
  ELSE IF InsertRestoredFails(W.ledger, request_id) THEN W
  ELSE [W EXCEPT !.ledger = InsertRestored(@, request_id)]

\* As restore_msg_to_group, but the responseCode of the result is not read.
restore_msg_to_group_any_result(L, C, message_num, result) ==
  IF InsertRestoredFails(L, message_num)
  THEN [ledger |-> L, committed |-> C, raised |-> TRUE]
  ELSE LET marked == InsertRestored(L, message_num)
       IN [ledger |-> marked, committed |-> marked, raised |-> FALSE]

\* restore_msg_to_group after callGAPI(gmig.archive(), 'insert', ...) has
\* returned result: [ledger, committed, raised].  The INSERT is not guarded:
\* an IntegrityError leaves the function (raised) before the commit.
restore_msg_to_group(L, C, message_num, result) ==
  IF result = "SUCCESS"
  THEN IF InsertRestoredFails(L, message_num)
       THEN [ledger |-> L, committed |-> C, raised |-> TRUE]
       ELSE LET marked == InsertRestored(L, message_num)
            IN [ledger |-> marked, committed |-> marked, raised |-> FALSE]
  ELSE [ledger |-> L, committed |-> C, raised |-> FALSE]

----------------------------------------------------------------------------
(* database.py: lookups and maintenance *)

\* As DeleteEntry, but without the DELETE FROM labels.
DeleteEntry_keeps_labels(L, message_num) ==
  [L EXCEPT !.messages = DeleteMessageRows(@, message_num),
            !.uids = DeletePairRows(@, message_num)]

\* As DeleteEntry, but without the DELETE FROM uids.
DeleteEntry_keeps_uids(L, message_num) ==
  [L EXCEPT !.messages = DeleteMessageRows(@, message_num),
            !.labels = DeletePairRows(@, message_num)]

\* DELETE FROM messages / labels / uids WHERE message_num = ?
DeleteEntry(L, message_num) ==
  [L EXCEPT !.messages = DeleteMessageRows(@, message_num),
            !.labels = DeletePairRows(@, message_num),
            !.uids = DeletePairRows(@, message_num)]

\* As message_is_backed_up, but the file of the row is not looked for.
message_is_backed_up_any_file(message_num, L, F) ==
  [result |-> MessageRows(L, message_num) # {}, ledger |-> L, commit |-> FALSE]

\* message_is_backed_up: [result, ledger, commit].  The SELECT binds the id
\* against the INTEGER column: a text that is no integer matches no row.
message_is_backed_up(message_num, L, F) ==
  LET sqlresults == MessageRows(L, message_num)
  IN IF sqlresults = {}
     THEN [result |-> FALSE, ledger |-> L, commit |-> FALSE]
     ELSE LET x == CHOOSE r \in sqlresults : TRUE
          IN IF x.message_filename \in F
             THEN [result |-> TRUE, ledger |-> L, commit |-> FALSE]
             ELSE [result |-> FALSE, ledger |-> DeleteEntry(L, message_num),
                   commit |-> TRUE]

\* getMessageIDs: every row whose file is gone is deleted, then commit.
getMessageIDs(L, F) ==
  LET gone == {r.message_num : r \in {x \in BagToSet(L.messages) : x.message_filename \notin F}}
      keepM == {r \in BagToSet(L.messages) : r.message_num \notin gone}
      keepL == {p \in BagToSet(L.labels) : p[1] \notin gone}
      keepU == {p \in BagToSet(L.uids) : p[1] \notin gone}
  IN [L EXCEPT !.messages = [r \in keepM |-> L.messages[r]],
               !.labels = [p \in keepL |-> L.labels[p]],
               !.uids = [p \in keepU |-> L.uids[p]]]

\* rebuildUIDTable: DELETE FROM uids; INSERT ... SELECT message_num, message_num
rebuildUIDTable(L) ==
  [L EXCEPT !.uids = SetToBag({<<n, n>> : n \in MessageNums(L)})]

----------------------------------------------------------------------------
(* The runs.  The loop that lists, diffs, submits batches and commits is   *)
(* not in src/ (legacy.py execute_action only prints); it follows spec.md  *)
(* 4.4 and 4.5.                                                            *)

BackupActions == {"backup", "backup-chat"}
RestoreActions == {"restore", "restore-group"}

\* The order of the remote listing and of the ledger's rows.
Rank(id) == id[2]

First(S) == CHOOSE m \in S : \A o \in S : Rank(m) <= Rank(o)

RECURSIVE FirstN(_, _)
FirstN(S, n) ==
  IF n = 0 \/ S = {} THEN {}
  ELSE {First(S)} \cup FirstN(S \ {First(S)}, n - 1)

IdleRun ==
  [phase |-> "idle", action |-> None, tolookup |-> {}, backedup |-> {},
   repaired |-> {}, outstanding |-> {}, batch |-> {}, inbatch |-> FALSE,
   before |-> NoneRec, succeeded |-> {}, failed |-> {}, attempted |-> {},
   startMarkers |-> {}, startMessages |-> {}, insertFailed |-> {},
   refreshed |-> FALSE, repairedRows |-> {}, noresume |-> FALSE]

World == [ledger |-> ledger, files |-> files, backup_count |-> backup_count,
          raised |-> FALSE]

Snapshot(L) == [messages |-> L.messages, labels |-> L.labels]

\* The remote mailbox of the model: the k-th message of either kind carries
\* the labels 1..k (as far as there are labels).
Mailbox == [m \in MsgIds |-> {l \in Labels : l <= m[2]}]

Init ==
  /\ ledger = EmptyLedger
  /\ committed = EmptyLedger
  /\ files = {}
  /\ backup_count = 0
  /\ remote = Mailbox
  /\ run = IdleRun
  /\ hist = [runs |-> 0, prev |-> NoneRec, failed |-> {}, interrupted |-> FALSE]
  /\ call = NoneRec
  /\ paging = NoneRec /\ dir = NoneRec /\ boot = NoneRec

\* A backup starts: Diffing over the remote listing.
StartBackup(action) ==
  /\ run.phase = "idle"
  /\ hist.runs < MaxRuns
  /\ run' = [IdleRun EXCEPT !.phase = "diffing", !.action = action,
                            !.tolookup = MsgIds]
  /\ backup_count' = 0
  /\ UNCHANGED <<ledger, committed, files, remote, hist, call, paging, dir, boot>>

\* Diffing: the next listed id is looked up; the lookup commits its repair.
Lookup ==
  /\ run.phase = "diffing"
  /\ run.tolookup # {}
  /\ LET m == First(run.tolookup)
         r == message_is_backed_up(m, ledger, files)
         gone == MessageRows(ledger, m) # {} /\ ~r.result
     IN /\ ledger' = r.ledger
        /\ committed' = IF r.commit THEN r.ledger ELSE committed
        /\ run' = [run EXCEPT
                     !.tolookup = @ \ {m},
                     !.backedup = IF r.result THEN @ \cup {m} ELSE @,
                     !.outstanding = IF r.result THEN @ ELSE @ \cup {m},
                     !.repaired = IF gone THEN @ \cup {m} ELSE @,
                     !.repairedRows =
                       IF gone
                       THEN @ \cup {t \in {"labels", "uids"} :
                                      \E p \in BagToSet(ledger[t]) : p[1] = m}
                       ELSE @,
                     !.phase = IF run.tolookup = {m} THEN "transfer" ELSE @]
  /\ UNCHANGED <<files, backup_count, remote, hist, call, paging, dir, boot>>

\* Transferring: the next batch_size outstanding items are submitted.
SubmitBatch ==
  /\ run.phase \in {"transfer", "refresh"}
  /\ run.action # "restore-group"
  /\ ~run.inbatch
  /\ run.outstanding # {}
  /\ LET B == FirstN(run.outstanding, BatchSize)
     IN run' = [run EXCEPT !.batch = B, !.outstanding = @ \ B, !.inbatch = TRUE,
                           !.before = ledger, !.succeeded = {}, !.failed = {},
                           !.attempted = IF run.action \in RestoreActions
                                         THEN @ \cup B ELSE @]
  /\ UNCHANGED <<ledger, committed, files, backup_count, remote, hist, call, paging, dir, boot>>

\* The outcome of one item reaches its callback; h is hist once the
\* outcome is known.  A callback that raised ends the process: what it had
\* not committed is lost.
Applied(W, m, ok, h) ==
  IF W.raised
  THEN /\ ledger' = committed
       /\ files' = W.files
       /\ backup_count' = 0
       /\ run' = IdleRun
       /\ hist' = [hist EXCEPT !.runs = @ + 1,
                               !.interrupted = run.action \in RestoreActions]
       /\ UNCHANGED <<committed, remote, call, paging, dir, boot>>
  ELSE /\ ledger' = W.ledger
       /\ files' = W.files
       /\ backup_count' = W.backup_count
       /\ run' = [run EXCEPT !.batch = @ \ {m},
                             !.succeeded = IF ok THEN @ \cup {m} ELSE @,
                             !.failed = IF ok THEN @ ELSE @ \cup {m},
                             !.insertFailed = IF ok \/ run.action \notin RestoreActions
                                              THEN @ ELSE @ \cup {m}]
       /\ hist' = h
       /\ UNCHANGED <<committed, remote, call, paging, dir, boot>>

\* messages.get answers with the message as the remote holds it.
Fetched(m) == [id |-> m, labelIds |-> remote[m]]

\* hist.failed: the ids whose last fetch failed.  A fetch that succeeds
\* where the last one failed is a remote that answers differently: the
\* ledger kept of the last finished backup is no longer what an unchanged
\* remote would reproduce.
FetchOk(m) ==
  [hist EXCEPT !.failed = @ \ {m},
               !.prev = IF m \in hist.failed THEN NoneRec ELSE @]
FetchFailed(m) == [hist EXCEPT !.failed = @ \cup {m}]

BackupCallback(m) ==
  /\ run.phase = "transfer"
  /\ run.action = "backup"
  /\ m \in run.batch
  /\ \/ Applied(backup_message(World, m, Fetched(m), None), m, TRUE, FetchOk(m))
     \/ Applied(backup_message(World, m, NoneRec, None), m, FALSE, FetchFailed(m))
     \/ Applied(backup_message(World, m, NoneRec, "HttpError"), m, FALSE, FetchFailed(m))

RefreshCallback(m) ==
  /\ run.phase = "refresh"
  /\ m \in run.batch
  /\ \/ Applied(refresh_message(World, m, Fetched(m), None), m, TRUE, hist)
     \/ Applied(refresh_message(World, m, NoneRec, None), m, FALSE, hist)
     \/ Applied(refresh_message(World, m, NoneRec, "HttpError"), m, FALSE, hist)

RestoreCallback(m) ==
  /\ run.phase = "transfer"
  /\ run.action = "restore"
  /\ m \in run.batch
  /\ \/ Applied(restored_message(World, m, [id |-> m], None), m, TRUE, hist)
     \/ Applied(restored_message(World, m, NoneRec, None), m, TRUE, hist)
     \/ Applied(restored_message(World, m, NoneRec, "HttpError"), m, FALSE, hist)

\* Every item of the batch has resolved: the batch call returns and the
\* driver commits.
CommitBatch ==
  /\ run.inbatch
  /\ run.batch = {}
  /\ committed' = ledger
  /\ run' = [run EXCEPT !.inbatch = FALSE, !.before = NoneRec,
                        !.succeeded = {}, !.failed = {}]
  /\ UNCHANGED <<ledger, files, backup_count, remote, hist, call, paging, dir, boot>>

\* The new messages are in: the label refresh pass over the messages that
\* were backed up already (options.refresh, the default) ...
BeginRefresh ==
  /\ run.phase = "transfer"
  /\ run.action \in BackupActions
  /\ run.outstanding = {} /\ ~run.inbatch
  /\ run' = [run EXCEPT !.phase = "refresh", !.outstanding = run.backedup,
                        !.refreshed = TRUE]
  /\ UNCHANGED <<ledger, committed, files, backup_count, remote, hist, call, paging, dir, boot>>

\* ... or none (--fast-incremental), and for a restore: Finalizing.
BeginFinalize ==
  /\ run.phase \in {"transfer", "refresh"}
  /\ run.outstanding = {} /\ ~run.inbatch
  /\ run' = [run EXCEPT !.phase = "finalizing"]
  /\ UNCHANGED <<ledger, committed, files, backup_count, remote, hist, call, paging, dir, boot>>

\* Finalizing: the pending transaction is committed and the process ends.
Finish ==
  /\ run.phase = "finalizing"
  /\ committed' = ledger
  /\ backup_count' = 0
  /\ run' = IdleRun
  /\ hist' = [hist EXCEPT
                !.runs = @ + 1,
                !.interrupted = FALSE,
                !.prev = IF run.action \in BackupActions
                         THEN Snapshot(ledger) ELSE @]
  /\ UNCHANGED <<ledger, files, remote, call, paging, dir, boot>>

\* A restore starts (resuming): the ledger's entries without a marker are
\* outstanding.
StartRestore(action) ==
  /\ run.phase = "idle"
  /\ hist.runs < MaxRuns
  /\ run' = [IdleRun EXCEPT
               !.phase = "transfer", !.action = action,
               !.startMessages = MessageNums(ledger),
               !.startMarkers = BagToSet(ledger.restored_messages),
               !.outstanding = MessageNums(ledger) \ BagToSet(ledger.restored_messages)]
  /\ backup_count' = 0
  /\ UNCHANGED <<ledger, committed, files, remote, hist, call, paging, dir, boot>>

\* restore-group: one message after the other through restore_msg_to_group.
RestoreToGroup(result) ==
  /\ run.phase = "transfer"
  /\ run.action = "restore-group"
  /\ run.outstanding # {}
  /\ LET m == First(run.outstanding)
         r == restore_msg_to_group(ledger, committed, m, result)
     IN IF r.raised
        THEN /\ ledger' = committed
             /\ run' = IdleRun
             /\ hist' = [hist EXCEPT !.runs = @ + 1, !.interrupted = run.action \in RestoreActions]
             /\ UNCHANGED committed
        ELSE /\ ledger' = r.ledger
             /\ committed' = r.committed
             /\ run' = [run EXCEPT !.outstanding = @ \ {m},
                                   !.attempted = @ \cup {m},
                                   !.insertFailed = IF result = "SUCCESS"
                                                    THEN @ ELSE @ \cup {m}]
             /\ UNCHANGED hist
  /\ UNCHANGED <<files, backup_count, remote, call, paging, dir, boot>>

\* As Interrupt, but the ledger is left empty.
Interrupt_loses_all ==
  /\ run.phase # "idle"
  /\ ledger' = EmptyLedger
  /\ backup_count' = 0
  /\ run' = IdleRun
  /\ hist' = [hist EXCEPT !.runs = @ + 1, !.interrupted = run.action \in RestoreActions]
  /\ UNCHANGED <<committed, files, remote, call, paging, dir, boot>>

\* The operator interrupts the process, or a fatal condition ends it: the
\* connection closes and what was not committed is lost.
Interrupt ==
  /\ run.phase # "idle"
  /\ ledger' = committed
  /\ backup_count' = 0
  /\ run' = IdleRun
  /\ hist' = [hist EXCEPT !.runs = @ + 1, !.interrupted = run.action \in RestoreActions]
  /\ UNCHANGED <<committed, files, remote, call, paging, dir, boot>>

\* Between runs somebody removes a file from the backup folder.
DeleteFile(f) ==
  /\ run.phase = "idle"
  /\ f \in files
  /\ files' = files \ {f}
  /\ hist' = [hist EXCEPT !.prev = NoneRec]
  /\ UNCHANGED <<ledger, committed, backup_count, remote, run, call, paging, dir, boot>>

\* main.py, action reindex: getMessageIDs, rebuildUIDTable, commit, exit.
Reindex ==
  /\ run.phase = "idle"
  /\ hist.runs < MaxRuns
  /\ LET L == rebuildUIDTable(getMessageIDs(ledger, files))
     IN ledger' = L /\ committed' = L
  /\ hist' = [hist EXCEPT !.runs = @ + 1, !.interrupted = FALSE]
  /\ UNCHANGED <<files, backup_count, remote, run, call, paging, dir, boot>>

Next ==
  \/ StartBackup("backup")
  \/ Lookup
  \/ SubmitBatch
  \/ \E m \in MsgIds : BackupCallback(m)
  \/ \E m \in MsgIds : RefreshCallback(m)
  \/ \E m \in MsgIds : RestoreCallback(m)
  \/ CommitBatch
  \/ BeginRefresh
  \/ BeginFinalize
  \/ Finish
  \/ \E a \in RestoreActions : StartRestore(a)
  \/ \E result \in {"SUCCESS", "FAILURE"} : RestoreToGroup(result)
  \/ Interrupt
  \/ \E f \in files : DeleteFile(f)
  \/ Reindex

Spec == Init /\ [][Next]_vars

----------------------------------------------------------------------------
(* Properties of the ledger under Spec *)

\* No row is stored twice, no message id has two message rows.
NoDuplicateRows(L) ==
  /\ \A t \in {"messages", "labels", "uids", "restored_messages"} :
       \A r \in BagToSet(L[t]) : CopiesIn(r, L[t]) = 1
  /\ \A m \in MsgIds : Cardinality(MessageRows(L, m)) <= 1

\* C1: a backup that reaches its end when an earlier backup has finished
\* against the same remote mailbox (every message answered as it was then, no
\* local file removed since) leaves the ledger with the message rows and
\* the label rows the earlier backup left, and with no duplicate row.
C1_BackupTwiceSameLedger ==
  (run.phase = "finalizing" /\ run.action \in BackupActions /\ hist.prev # NoneRec)
    => /\ Snapshot(ledger) = hist.prev
       /\ NoDuplicateRows(ledger)

\* A second backup at its end: the first one left message and label rows,
\* the second found messages backed up, refreshed their labels and fetched
\* again what the ledger does not hold.
C1_Witness ==
  /\ run.phase = "finalizing" /\ run.action \in BackupActions
  /\ hist.prev # NoneRec
  /\ hist.prev.messages # EmptyBag /\ hist.prev.labels # EmptyBag
  /\ run.backedup # {} /\ run.refreshed
  /\ backup_count > 0

\* C2: a restore that starts with N of the ledger's M messages marked
\* re-inserts none of the N, re-inserts exactly the other M-N by the time it
\* ends, and never holds two markers for a message; at its end every
\* message whose re-insert did not fail has exactly one marker (and a message
\* whose re-insert failed has none: it stays outstanding).
C2_ResumeRestoresTheRest ==
  run.action \in RestoreActions =>
    /\ run.attempted \cap run.startMarkers = {}
    /\ run.attempted \subseteq run.startMessages
    /\ \A m \in MsgIds : CopiesIn(m, ledger.restored_messages) <= 1
    /\ run.phase = "finalizing" =>
         /\ run.attempted = run.startMessages \ run.startMarkers
         /\ \A m \in run.startMessages :
              CopiesIn(m, ledger.restored_messages) =
                IF m \in run.insertFailed THEN 0 ELSE 1

\* The restart after an interrupted restore, at its end: N >= 1 markers had
\* been committed, M-N >= 1 messages were left and have been re-inserted,
\* and every message of the ledger is marked.
C2_Witness ==
  /\ run.action \in RestoreActions /\ run.phase = "finalizing"
  /\ hist.interrupted
  /\ run.startMarkers # {}
  /\ run.attempted # {}
  /\ run.insertFailed = {}
  /\ BagToSet(ledger.restored_messages) = run.startMessages

\* The rows of message m in the tables of L.
RowsOf(L, m) ==
  [messages |-> MessageRows(L, m),
   labels |-> {p \in BagToSet(L.labels) : p[1] = m},
   uids |-> {p \in BagToSet(L.uids) : p[1] = m}]

NoRows == [messages |-> {}, labels |-> {}, uids |-> {}]

\* C3: when the lookup of the backup diff finds m recorded with a file that
\* is gone (run.repaired), the run goes on with m not counted as backed up;
\* from then until m is fetched again the ledger, and what is committed of
\* it, holds no message row, no label row and no uid row for m, and m is
\* outstanding; by the end of the transfer m has been fetched again: its
\* row is back with a file that exists, unless that fetch failed.
C3_MissingFileRepaired ==
  \A m \in run.repaired :
    /\ run.action \in BackupActions
    /\ m \notin run.backedup
    /\ RowsOf(ledger, m).uids = {} /\ RowsOf(committed, m).uids = {}
    /\ (run.phase = "diffing" \/ (run.phase = "transfer" /\ m \in run.outstanding)) =>
         /\ m \in run.outstanding
         /\ RowsOf(ledger, m) = NoRows
         /\ RowsOf(committed, m) = NoRows
    /\ run.phase \in {"refresh", "finalizing"} =>
         \/ m \in hist.failed
         \/ \E r \in MessageRows(ledger, m) : r.message_filename \in files

\* The diff has just repaired the entry of a message that had label rows and
\* a uid row, and the message waits to be fetched again.
C3_Witness ==
  \E m \in run.repaired :
    /\ run.repairedRows = {"labels", "uids"}
    /\ m \in run.outstanding
    /\ run.phase \in {"diffing", "transfer"}
    /\ EmlFile(m) \notin files

\* C4: when every item of a backup batch has resolved, the ledger has gained
\* a message record for exactly the items that resolved with a successful
\* response, and an item that resolved with an exception has changed
\* nothing: its rows are those it had before the batch.
C4_BatchAppliesEachSuccess ==
  (run.phase = "transfer" /\ run.action \in BackupActions /\ run.inbatch /\ run.batch = {})
    => /\ MessageNums(ledger) = MessageNums(run.before) \cup run.succeeded
       /\ \A m \in run.failed : RowsOf(ledger, m) = RowsOf(run.before, m)

\* The callback F applied to the world W with the successful outcome of
\* message m, and applied once more with the same outcome: no error either
\* time, the same ledger after the second as after the first, no duplicate.
SecondIsNoOp(F(_, _, _, _), W, m) ==
  LET once == F(W, m, Fetched(m), None)
      twice == F(once, m, Fetched(m), None)
  IN /\ ~once.raised /\ ~twice.raised
     /\ twice.ledger = once.ledger
     /\ NoDuplicateRows(twice.ledger)

\* The callback of the running action.
RunCallback(W, m) ==
  IF run.phase = "refresh" THEN refresh_message(W, m, Fetched(m), None)
  ELSE IF run.action = "backup" THEN backup_message(W, m, Fetched(m), None)
  ELSE IF run.action = "backup-chat" THEN backup_chat(W, m, Fetched(m), None)
  ELSE restored_message(W, m, Fetched(m), None)

\* C5: in every state the ledger can be in, each ledger-writing callback
\* applied twice with the same successful outcome raises no error and
\* leaves the ledger after the second application as it was after the first,
\* without a duplicate message, label or marker row; and an outcome that
\* the running batch has applied already is a no-op when applied again.
C5_SameOutcomeTwice ==
  /\ \A m \in MsgIds :
       /\ SecondIsNoOp(backup_message, World, m)
       /\ SecondIsNoOp(backup_chat, World, m)
       /\ SecondIsNoOp(refresh_message, World, m)
       /\ SecondIsNoOp(restored_message, World, m)
  /\ (run.inbatch /\ run.action # "restore-group") =>
       \A m \in run.succeeded :
         LET again == RunCallback(World, m)
         IN ~again.raised /\ again.ledger = ledger

\* A backup batch has applied the successful outcome of a message the
\* ledger records, with its labels: applying it again meets the primary key.
C5_Witness ==
  /\ run.action = "backup" /\ run.phase = "transfer" /\ run.inbatch
  /\ \E m \in run.succeeded :
       /\ MessageRows(ledger, m) # {}
       /\ MessageRows(run.before, m) = {}
       /\ RowsOf(ledger, m).labels # {}

\* The labels of the label rows of m in L.
LabelsOf(L, m) == {p[2] : p \in RowsOf(L, m).labels}

\* The callback F applied to the world W with the successful outcome of m
\* carrying the labels labelIds leaves exactly those labels on m, each once.
LabelsReplaced(F(_, _, _, _), W, m, labelIds) ==
  LET after == F(W, m, [id |-> m, labelIds |-> labelIds], None).ledger
  IN /\ LabelsOf(after, m) = labelIds
     /\ \A l \in labelIds : CopiesIn(<<m, l>>, after.labels) = 1

\* C25: once the successful fetch outcome of message m has been applied by
\* backup_message or by refresh_message, the label rows of m are exactly the
\* labels of that response: this holds for every item a running batch has
\* applied, and for every outcome the callbacks may be given in the state
\* the ledger is in (for backup_message: of a message of the running
\* batch), whatever labels the response carries and m had before.
C25_LabelRowsAreTheLastFetch ==
  /\ (run.inbatch /\ run.action \in BackupActions) =>
       \A m \in run.succeeded : LabelsOf(ledger, m) = remote[m]
  /\ \A m \in MsgIds, labelIds \in SUBSET Labels :
       /\ LabelsReplaced(refresh_message, World, m, labelIds)
       /\ (run.phase = "transfer" /\ run.action = "backup" /\ m \in run.batch) =>
            LabelsReplaced(backup_message, World, m, labelIds)

\* Message m has a message row in L whose file is in the backup folder.
RecordedWithFile(L, m) == \E r \in MessageRows(L, m) : r.message_filename \in files

\* The diff of a backup is at work, or done with nothing submitted yet.
Diffed ==
  /\ run.action \in BackupActions
  /\ \/ run.phase = "diffing"
     \/ run.phase = "transfer" /\ ~run.inbatch
          /\ run.outstanding \cup run.backedup = MsgIds

\* C26: the outstanding set of a backup's diff is the remote listing minus
\* the ids that have a message row whose file exists: every listed id that
\* has been looked up is outstanding when it has no row or a row whose file
\* is missing, and is counted as backed up, not outstanding, when it has a
\* row and the file; at the end of the diff every listed id is one or the
\* other.
C26_OutstandingIsListingMinusBackedUp ==
  Diffed =>
    /\ \A m \in MsgIds \ run.tolookup :
         /\ m \in run.outstanding <=> ~RecordedWithFile(ledger, m)
         /\ m \in run.backedup <=> RecordedWithFile(ledger, m)
    /\ run.outstanding \cap run.backedup = {}
    /\ run.phase = "transfer" =>
         run.outstanding = {m \in MsgIds : ~RecordedWithFile(ledger, m)}

\* The diff is done: one message is backed up, one was recorded but its file
\* is gone, one has never been recorded.
C26_Witness ==
  /\ Diffed /\ run.phase = "transfer"
  /\ run.backedup # {}
  /\ run.repaired # {}
  /\ run.outstanding \ run.repaired # {}

\* The number of markers message m has in L.
Markers(L, m) == CopiesIn(m, L.restored_messages)

\* C27: a marker of message m is created only by a step of a restore in
\* which the remote insert of m completed with success (no exception for
\* restored_message, responseCode SUCCESS for restore_msg_to_group): an
\* outcome with an exception and a result that is no success leave the
\* markers as they are, and m never has more than one marker.
C27_MarkerOnlyAfterSuccess ==
  [][\A m \in MsgIds :
       /\ Markers(ledger', m) <= 1
       /\ restored_message(World, m, NoneRec, "HttpError").ledger = ledger
       /\ restore_msg_to_group(ledger, committed, m, "FAILURE").ledger = ledger
       /\ Markers(ledger', m) > Markers(ledger, m) =>
            /\ run.action \in RestoreActions /\ run.phase = "transfer"
            /\ m \in run'.attempted
            /\ m \notin run'.insertFailed
            /\ run.action = "restore" => m \in run.batch /\ m \in run'.succeeded
            /\ run.action = "restore-group" => m = First(run.outstanding)]_vars

\* A restore batch has resolved: the message whose insert succeeded has its
\* marker, the one whose insert raised an exception has none.
C27_Witness ==
  /\ run.action = "restore" /\ run.inbatch /\ run.batch = {}
  /\ \E m \in run.succeeded : Markers(ledger, m) = 1
  /\ \E m \in run.failed : Markers(ledger, m) = 0

\* The message and label rows of a backup in which every message was
\* fetched and stored: a row for each id the messages table takes, with the
\* labels the remote holds.
FullBackup ==
  LET stored == {m \in MsgIds : IsIntegerText(m)}
  IN [messages |-> SetToBag({MessageRow(m, EmlFile(m)) : m \in stored}),
      labels |-> SetToBag({p \in stored \X Labels : p[2] \in remote[p[1]]})]

\* C28: a run that is interrupted while it transfers leaves the ledger as
\* it was last committed, without a duplicate row; in the diff of the next
\* backup every message whose file was written but whose rows were not
\* committed is outstanding again, and what was committed is not; and a
\* backup that reaches its end with no fetch failed ends with the ledger of
\* a full backup, whether or not an earlier run was interrupted.
C28_InterruptedRunResumes ==
  /\ [][(run.phase \in {"transfer", "refresh"} /\ run'.phase = "idle") =>
          /\ ledger' = committed
          /\ committed' = committed
          /\ NoDuplicateRows(ledger')]_vars
  /\ []((Diffed /\ run.phase = "transfer") =>
          \A m \in MsgIds :
            /\ (EmlFile(m) \in files /\ MessageRows(ledger, m) = {}) => m \in run.outstanding
            /\ RecordedWithFile(committed, m) => m \notin run.outstanding)
  /\ []((run.phase = "finalizing" /\ run.action \in BackupActions /\ hist.failed = {}) =>
          /\ Snapshot(ledger) = FullBackup
          /\ NoDuplicateRows(ledger))

\* The diff after an interrupted backup: one message is recorded from a
\* batch that was committed, another has its file but no row, because the
\* batch that stored it was not committed, and is outstanding again.
C28_Witness ==
  /\ Diffed /\ run.phase = "transfer"
  /\ \E m \in run.backedup : RecordedWithFile(committed, m)
  /\ \E m \in run.outstanding :
       /\ IsIntegerText(m) /\ EmlFile(m) \in files
       /\ MessageRows(ledger, m) = {} /\ m \notin run.repaired

\* The label rows of L are owned and unique: each belongs to a message that
\* has a message row, and no (message, label) pair is stored twice.
LabelRowsOwned(L) ==
  \A p \in BagToSet(L.labels) :
    /\ MessageRows(L, p[1]) # {}
    /\ CopiesIn(p, L.labels) = 1

\* C30: after any sequence of backup, label refresh, restore, self-repair
\* and reindex steps, every label row of the ledger (and of what is
\* committed of it) belongs to a message that has a message row, and each
\* (message, label) pair is stored at most once.
C30_LabelRowsOwnedAndUnique ==
  /\ LabelRowsOwned(ledger)
  /\ LabelRowsOwned(committed)

\* A backup whose diff repaired an entry that had label rows has fetched
\* the message again, has refreshed the labels of the others and is about
\* to end with label rows in the ledger.
C30_Witness ==
  /\ run.phase = "finalizing" /\ run.refreshed
  /\ run.backedup # {}
  /\ \E m \in run.repaired :
       /\ "labels" \in run.repairedRows
       /\ RowsOf(ledger, m).labels # {}
  /\ \E m \in run.backedup : RowsOf(ledger, m).labels # {}

----------------------------------------------------------------------------
(* google_api.py: callGAPI and _backoff *)

retries == 10

BuiltinRetryReasons ==
  {"rateLimitExceeded", "userRateLimitExceeded", "backendError", "internalError"}

\* The reasons a remote failure may carry in the model: the built-in
\* retryable ones, two others, and an HTTP status standing in for a body
\* that names no reason (reason = e.resp.status).
Reasons == BuiltinRetryReasons \cup {"notFound", "quotaExceeded", "503"}

\* What callers pass as throw_reasons and retry_reasons.
ThrowChoices == SUBSET {"notFound", "rateLimitExceeded"}
RetryChoices == {{}, {"quotaExceeded"}}

\* random.randint(1, 1000)
RandintLow == 1
RandintHigh == 1000

\* for n in range(1, retries+1)
LoopRange == 1..retries

\* As BackoffBase, without the cap.
BackoffBase_uncapped(n) == 2^n

\* wait_on_fail = (2 ** n) if (2 ** n) < 60 else 60
BackoffBase(n) == IF 2^n < 60 THEN 2^n ELSE 60

\* As BackoffMs, with the draw counted from 0.
BackoffMs_from_zero(n, r) == BackoffBase(n) * 1000 + (r - 1)

\* _backoff: the seconds slept, in thousandths, for the random draw r
\* (randomness = float(r) / 1000).
BackoffMs(n, r) == BackoffBase(n) * 1000 + r

\* As MayRetry, without the test of the last attempt.
MayRetry_always(n) == TRUE

\* n != retries, the guard of both retry branches
MayRetry(n) == n # retries

\* As Retryable, without the built-in list.
Retryable_only_extra(reason, retry_reasons) == reason \in retry_reasons

\* reason in [the built-in list] + retry_reasons
Retryable(reason, retry_reasons) ==
  reason \in BuiltinRetryReasons \cup retry_reasons

\* As ClassifyHttpError, with the retry test ahead of the throw test.
ClassifyHttpError_retry_first(c, reason) ==
  IF MayRetry(c.n) /\ Retryable(reason, c.retry_reasons) THEN "backoff"
  ELSE IF reason \in c.throw_reasons THEN "raised"
  ELSE IF c.soft_errors THEN "soft"
  ELSE "exit"

\* As ClassifyHttpError, without the soft_errors branch.
ClassifyHttpError_always_hard(c, reason) ==
  IF reason \in c.throw_reasons THEN "raised"
  ELSE IF MayRetry(c.n) /\ Retryable(reason, c.retry_reasons) THEN "backoff"
  ELSE "exit"

\* The except clause for HttpError: what becomes of the call.
ClassifyHttpError(c, reason) ==
  IF reason \in c.throw_reasons THEN "raised"
  ELSE IF MayRetry(c.n) /\ Retryable(reason, c.retry_reasons) THEN "backoff"
  ELSE IF c.soft_errors THEN "soft"
  ELSE "exit"

\* As ClassifyNetworkError, with the soft_errors branch of the HttpError
\* clause.
ClassifyNetworkError_soft(c) ==
  IF MayRetry(c.n) THEN "backoff"
  ELSE IF c.soft_errors THEN "soft"
  ELSE "exit"

\* The except clause for ServerNotFoundError and socket.error.
ClassifyNetworkError(c) == IF MayRetry(c.n) THEN "backoff" ELSE "exit"

\* Where a call has ended: the response returned, the HttpError raised to
\* the caller, None returned after a soft error, sys.exit, or the end of the
\* for loop (the function returns None).
Terminal == {"returned", "raised", "soft", "exit", "fellthrough"}

InitCall ==
  /\ ledger = EmptyLedger
  /\ committed = EmptyLedger
  /\ files = {}
  /\ backup_count = 0
  /\ remote = Mailbox
  /\ run = IdleRun
  /\ hist = [runs |-> 0, prev |-> NoneRec, failed |-> {}, interrupted |-> FALSE]
  /\ paging = NoneRec /\ dir = NoneRec /\ boot = NoneRec
  /\ \E soft \in BOOLEAN, thr \in ThrowChoices, ret \in RetryChoices :
       call = [soft_errors |-> soft, throw_reasons |-> thr, retry_reasons |-> ret,
               n |-> 1, pc |-> "call", calls |-> 0, backoffs |-> 0,
               base |-> 0, wait_ms |-> 0, reported |-> FALSE,
               reason |-> None, exit_code |-> 0]

Calling == call # NoneRec /\ call.pc = "call" /\ call.n \in LoopRange

\* method(**parameters).execute() returns the response.
CallReturns ==
  /\ Calling
  /\ call' = [call EXCEPT !.calls = @ + 1, !.pc = "returned", !.reason = None]
  /\ UNCHANGED <<ledgerVars, paging, dir, boot>>

\* ... raises googleapiclient.errors.HttpError carrying reason.
CallHttpError(reason) ==
  /\ Calling
  /\ LET to == ClassifyHttpError(call, reason)
     IN call' = [call EXCEPT !.calls = @ + 1, !.pc = to, !.reason = reason,
                             !.exit_code = IF to = "exit" THEN 5 ELSE 0]
  /\ UNCHANGED <<ledgerVars, paging, dir, boot>>

\* As CallRefreshError, but backed off like a network error.
CallRefreshError_retried ==
  /\ Calling
  /\ LET to == ClassifyNetworkError(call)
     IN call' = [call EXCEPT !.calls = @ + 1, !.pc = to, !.reason = "RefreshError",
                             !.exit_code = IF to = "exit" THEN 403 ELSE 0]
  /\ UNCHANGED <<ledgerVars, paging, dir, boot>>

\* ... raises google.auth.exceptions.RefreshError.
CallRefreshError ==
  /\ Calling
  /\ call' = [call EXCEPT !.calls = @ + 1, !.pc = "exit", !.reason = "RefreshError",
                          !.exit_code = 403]
  /\ UNCHANGED <<ledgerVars, paging, dir, boot>>

\* ... raises httplib2.CertificateValidationUnsupported.
CallCertificateError ==
  /\ Calling
  /\ call' = [call EXCEPT !.calls = @ + 1, !.pc = "exit",
                          !.reason = "CertificateValidationUnsupported",
                          !.exit_code = 8]
  /\ UNCHANGED <<ledgerVars, paging, dir, boot>>

\* ... raises httplib2.ServerNotFoundError or socket.error.
CallNetworkError ==
  /\ Calling
  /\ LET to == ClassifyNetworkError(call)
     IN call' = [call EXCEPT !.calls = @ + 1, !.pc = to, !.reason = "network",
                             !.exit_code = IF to = "exit" THEN 4 ELSE 0]
  /\ UNCHANGED <<ledgerVars, paging, dir, boot>>

\* _backoff(n, retries, reason) up to time.sleep(wait_on_fail): the random
\* draw r, the message when n > 3.
Backoff(r) ==
  /\ call # NoneRec /\ call.pc = "backoff"
  /\ call' = [call EXCEPT !.pc = "sleep", !.backoffs = @ + 1,
                          !.base = BackoffBase(call.n),
                          !.wait_ms = BackoffMs(call.n, r),
                          !.reported = call.n > 3,
                          !.reason = None]
  /\ UNCHANGED <<ledgerVars, paging, dir, boot>>

\* time.sleep returns; continue takes the next n of the range, and a range
\* that is used up leaves the loop and the function.
Wake ==
  /\ call # NoneRec /\ call.pc = "sleep"
  /\ call' = [call EXCEPT !.n = @ + 1,
                          !.pc = IF call.n + 1 \in LoopRange THEN "call" ELSE "fellthrough",
                          !.base = 0, !.wait_ms = 0, !.reported = FALSE]
  /\ UNCHANGED <<ledgerVars, paging, dir, boot>>

NextCall ==
  \/ CallReturns
  \/ \E reason \in Reasons : CallHttpError(reason)
  \/ CallRefreshError
  \/ CallCertificateError
  \/ CallNetworkError
  \/ \E r \in RandintLow..RandintHigh : Backoff(r)
  \/ Wake

SpecCall == InitCall /\ [][NextCall]_vars

----------------------------------------------------------------------------
(* Properties of callGAPI under SpecCall *)

\* C6: one callGAPI call invokes the remote operation at most retries (10)
\* times, the n-th invocation being the n-th pass of the loop; the call
\* never leaves the loop at its end: it ends with the returned response,
\* the HttpError raised to the caller (a throw reason), None after a soft
\* error (soft_errors only) or the exit of the process (non-zero code), and
\* once ended it takes no further step.
C6_AtMostTenAttempts ==
  /\ call.calls <= retries
  /\ call.pc = "call" => (call.n \in LoopRange /\ call.calls = call.n - 1)
  /\ call.pc \in {"backoff", "sleep"} => call.calls = call.n
  /\ call.pc # "fellthrough"
  /\ call.pc \in Terminal =>
       /\ call.calls = call.n
       /\ call.pc \in {"returned", "raised", "soft", "exit"}
       /\ call.pc = "raised" => call.reason \in call.throw_reasons
       /\ call.pc = "soft" => call.soft_errors
       /\ (call.pc = "exit") = (call.exit_code # 0)
       /\ ~ENABLED NextCall

\* The tenth invocation has failed after nine backoffs, with a reason that
\* was retried until then, and the call has ended.
C6_Witness ==
  /\ call.calls = retries /\ call.backoffs = retries - 1
  /\ call.pc \in {"soft", "exit"}
  /\ call.reason \in BuiltinRetryReasons

\* The delays before jitter, by attempt.
DelayTable == <<2, 4, 8, 16, 32, 60, 60, 60, 60, 60>>

\* C7: whenever the executor sleeps after attempt n, the delay before
\* jitter is 2, 4, 8, 16, 32 seconds for n = 1..5 and 60 seconds from n = 6
\* on; over the attempts of a call it never decreases and never exceeds 60.
C7_DelayBeforeJitter ==
  /\ call.pc = "sleep" =>
       /\ call.n \in 1..Len(DelayTable)
       /\ call.base = DelayTable[call.n]
       /\ call.base <= 60
  /\ \A n \in LoopRange :
       /\ BackoffBase(n) <= 60
       /\ n + 1 \in LoopRange => BackoffBase(n) <= BackoffBase(n + 1)

\* The executor sleeps after the ninth attempt: 60 seconds before jitter.
C7_Witness ==
  /\ call.pc = "sleep" /\ call.n = retries - 1
  /\ call.base = 60

\* The jitter of the sleep in progress, in thousandths of a second.
JitterMs == call.wait_ms - call.base * 1000

\* C8 as stated: the jitter of every backoff is at least 0 and strictly
\* less than 1 second, so the sleep is at least the delay before jitter and
\* strictly less than that delay plus 1 second.
C8_JitterBelowOneSecond ==
  call.pc = "sleep" =>
    /\ JitterMs >= 0 /\ JitterMs < 1000
    /\ call.wait_ms >= call.base * 1000
    /\ call.wait_ms < call.base * 1000 + 1000

\* C8 as amended: the jitter of every backoff is more than 0 and at most 1
\* second (a whole number of thousandths from 0.001 to 1.000), so the sleep
\* is more than the delay before jitter and at most that delay plus 1 second.
C8_JitterUpToOneSecond ==
  call.pc = "sleep" =>
    /\ JitterMs >= 1 /\ JitterMs <= 1000
    /\ call.wait_ms > call.base * 1000
    /\ call.wait_ms <= call.base * 1000 + 1000

\* A sleep whose jitter is one full second.
C8_Witness ==
  /\ call.pc = "sleep"
  /\ JitterMs = 1000
  /\ call.wait_ms = BackoffBase(call.n) * 1000 + 1000

\* C9: on every attempt, in soft and in hard mode, an HttpError whose reason
\* is in throw_reasons is raised to the caller, also when the reason is a
\* retryable one: the call ends raised on that attempt, with no backoff
\* after it; a call that backs off, returns None or exits does so for a
\* reason that is not in throw_reasons.
C9_ThrowReasonRaisedAtOnce ==
  /\ Calling =>
       \A reason \in call.throw_reasons : ClassifyHttpError(call, reason) = "raised"
  /\ call.pc = "raised" =>
       /\ call.reason \in call.throw_reasons
       /\ call.calls = call.n /\ call.backoffs = call.n - 1
       /\ ~ENABLED NextCall
  /\ call.pc \in {"backoff", "soft", "exit"} => call.reason \notin call.throw_reasons

\* A soft-mode call ends raised on a later attempt for a throw reason that
\* is also a built-in retry reason.
C9_Witness ==
  /\ call.pc = "raised" /\ call.n > 1 /\ call.soft_errors
  /\ call.reason \in call.throw_reasons \cap BuiltinRetryReasons

\* C10: on every attempt an HttpError whose reason is neither in
\* throw_reasons nor retryable ends the call on that attempt: with
\* soft_errors it returns None (no exit code), without it the process exits
\* with code 5; a call that backs off after an HttpError does so for a
\* retryable reason only.
C10_OtherReasonEndsCall ==
  /\ Calling =>
       \A reason \in Reasons \ (call.throw_reasons \cup BuiltinRetryReasons \cup call.retry_reasons) :
         ClassifyHttpError(call, reason) = IF call.soft_errors THEN "soft" ELSE "exit"
  /\ (call.pc = "soft" /\ call.reason \in Reasons) =>
       /\ call.soft_errors /\ call.exit_code = 0
       /\ call.calls = call.n
       /\ ~ENABLED NextCall
  /\ (call.pc = "exit" /\ call.reason \in Reasons) =>
       /\ ~call.soft_errors /\ call.exit_code = 5
       /\ call.calls = call.n
       /\ ~ENABLED NextCall
  /\ (call.pc = "backoff" /\ call.reason \in Reasons) =>
       call.reason \in BuiltinRetryReasons \cup call.retry_reasons

\* A soft-mode call returns None on a later attempt: the reason is one the
\* caller neither throws nor retries.
C10_Witness ==
  /\ call.pc = "soft" /\ call.n > 1
  /\ call.reason = "quotaExceeded"
  /\ call.reason \notin call.throw_reasons \cup call.retry_reasons

\* C11: a network error on an attempt before the last is backed off in the
\* loop of the API failures, on the same counter n; a network error on the
\* last attempt ends the process with exit code 4, with and without
\* soft_errors: a network error never ends the call with a soft None.
C11_NetworkErrorExhausted ==
  /\ Calling =>
       ClassifyNetworkError(call) = IF call.n < 10 THEN "backoff" ELSE "exit"
  /\ (call.pc = "backoff" /\ call.reason = "network") =>
       /\ call.calls = call.n /\ call.n < retries
       /\ call.exit_code = 0
  /\ (call.pc \in Terminal /\ call.reason = "network") =>
       /\ call.pc = "exit" /\ call.exit_code = 4
       /\ call.calls = retries /\ call.backoffs = retries - 1
       /\ ~ENABLED NextCall

\* A soft-mode call has ended with exit code 4 on a network error at the
\* tenth attempt.
C11_Witness ==
  /\ call.pc = "exit" /\ call.reason = "network" /\ call.exit_code = 4
  /\ call.soft_errors
  /\ call.calls = retries

\* C12: a RefreshError ends the process with exit code 403 on the attempt
\* on which it is raised, with and without soft_errors: no backoff follows
\* it and the operation is not invoked again.
C12_RefreshErrorFatal ==
  call.reason = "RefreshError" =>
    /\ call.pc = "exit" /\ call.exit_code = 403
    /\ call.calls = call.n /\ call.backoffs = call.n - 1
    /\ ~ENABLED NextCall

\* A soft-mode call has ended on a RefreshError at a later attempt.
C12_Witness ==
  /\ call.reason = "RefreshError" /\ call.pc = "exit"
  /\ call.soft_errors /\ call.n > 1

\* C13: the failures backed off before the attempt in progress leave no
\* trace for the caller: a call that returns after k backoffs returns the
\* response as a call that returned at once (no reason, no exit code); a
\* call ends on a reason of the retry list (soft or exit), or on a network
\* error, only with the tenth invocation.
C13_RetriesInvisible ==
  /\ call.pc = "call" =>
       /\ call.backoffs = call.n - 1
       /\ call.reason = None /\ call.exit_code = 0
  /\ call.pc = "returned" =>
       /\ call.backoffs = call.calls - 1
       /\ [call EXCEPT !.n = 1, !.calls = 1, !.backoffs = 0] =
            [soft_errors |-> call.soft_errors, throw_reasons |-> call.throw_reasons,
             retry_reasons |-> call.retry_reasons, n |-> 1, pc |-> "returned",
             calls |-> 1, backoffs |-> 0, base |-> 0, wait_ms |-> 0,
             reported |-> FALSE, reason |-> None, exit_code |-> 0]
  /\ (call.pc \in {"soft", "exit"}
        /\ call.reason \in BuiltinRetryReasons \cup call.retry_reasons \cup {"network"}) =>
       call.calls = retries

\* The operation has failed nine times, was backed off nine times and has
\* returned on the tenth invocation.
C13_Witness ==
  /\ call.pc = "returned"
  /\ call.backoffs = retries - 1 /\ call.calls = retries

----------------------------------------------------------------------------
(* google_api.py: callGAPIpages *)

\* pageToken = None, among cursors that are page numbers
NoToken == 0

\* A response page is a dictionary: has_items / has_token say whether the
\* keys items / nextPageToken are there.  The j-th item of page i is <<i, j>>;
\* the cursor that page i carries is i + 1.
RemotePage(i, k, has_items, has_token) ==
  [has_items |-> has_items, items |-> [j \in 1..k |-> <<i, j>>],
   has_token |-> has_token, nextPageToken |-> IF has_token THEN i + 1 ELSE NoToken]

\* The pages the remote may serve as page i: up to MaxItems items, or no
\* items key at all; a cursor on every page but the last.
PageChoices(i, last) ==
  {RemotePage(i, k, TRUE, ~last) : k \in 0..MaxItems}
    \cup {RemotePage(i, 0, FALSE, ~last)}

\* The listings of pages i..n.
RECURSIVE ListingsFrom(_, _)
ListingsFrom(i, n) ==
  IF i > n THEN {<< >>}
  ELSE {<<p>> \o rest : p \in PageChoices(i, i = n), rest \in ListingsFrom(i + 1, n)}

\* The listings the remote may hold: 1..MaxPages pages.
Listings == UNION {ListingsFrom(1, n) : n \in 1..MaxPages}

\* What the remote answers to a request with pageToken (None: the first page).
Served(pages, pageToken) == IF pageToken = NoToken THEN pages[1] ELSE pages[pageToken]

\* As EmptyPage, but with a cursor (that of the first page) in it.
EmptyPage_with_cursor ==
  [has_items |-> TRUE, items |-> << >>, has_token |-> TRUE, nextPageToken |-> 1]

\* if not this_page: this_page = {items: []} -- None and the empty dictionary
EmptyPage ==
  [has_items |-> TRUE, items |-> << >>, has_token |-> FALSE, nextPageToken |-> NoToken]
Falsy(response) == response = NoneRec \/ (~response.has_items /\ ~response.has_token)
ThisPage(response) == IF Falsy(response) THEN EmptyPage ELSE response

\* As PageCount, but a page without the items key counts as one item.
PageCount_missing_as_one(this_page) ==
  IF this_page.has_items THEN Len(this_page.items) ELSE 1

\* page_items = len(this_page[items]), 0 on KeyError
PageCount(this_page) ==
  IF this_page.has_items THEN Len(this_page.items) ELSE 0

\* this_page[items], KeyError passed
PageItems(this_page) == IF this_page.has_items THEN this_page.items ELSE <<>>

\* As Extend, but the page replaces what was collected.
Extend_overwrite(all_pages, this_page) == PageItems(this_page)

\* all_pages.extend(this_page[items])
Extend(all_pages, this_page) == all_pages \o PageItems(this_page)

\* As PageEnds, but on the empty item list.
PageEnds_on_empty(this_page) == PageItems(this_page) = <<>>

\* pageToken = this_page[nextPageToken] raises KeyError: return all_pages
PageEnds(this_page) == ~this_page.has_token

InitPages ==
  /\ ledger = EmptyLedger
  /\ committed = EmptyLedger
  /\ files = {}
  /\ backup_count = 0
  /\ remote = Mailbox
  /\ run = IdleRun
  /\ hist = [runs |-> 0, prev |-> NoneRec, failed |-> {}, interrupted |-> FALSE]
  /\ call = NoneRec /\ dir = NoneRec /\ boot = NoneRec
  /\ \E pages \in Listings :
       paging = [pages |-> pages, pageToken |-> NoToken, all_pages |-> <<>>,
                 total_items |-> 0, pc |-> "request",
                 requested |-> <<>>, received |-> <<>>]

\* One pass of the while loop with the response callGAPI returned.
Page(response) ==
  LET this_page == ThisPage(response)
  IN paging' = [paging EXCEPT
       !.requested = Append(@, paging.pageToken),
       !.received = Append(@, this_page),
       !.total_items = @ + PageCount(this_page),
       !.all_pages = Extend(@, this_page),
       !.pageToken = IF PageEnds(this_page) THEN @ ELSE this_page.nextPageToken,
       !.pc = IF PageEnds(this_page) THEN "done" ELSE "request"]

\* callGAPI returns the page the remote serves for pageToken.
PageReturned ==
  /\ paging # NoneRec /\ paging.pc = "request"
  /\ Len(paging.requested) < MaxPages
  /\ Page(Served(paging.pages, paging.pageToken))
  /\ UNCHANGED <<ledgerVars, call, dir, boot>>

\* callGAPI returns None (a soft error).
PageSoftError ==
  /\ paging # NoneRec /\ paging.pc = "request"
  /\ Len(paging.requested) < MaxPages
  /\ Page(NoneRec)
  /\ UNCHANGED <<ledgerVars, call, dir, boot>>

\* callGAPI raises or exits: callGAPIpages returns nothing.
PageCallFails ==
  /\ paging # NoneRec /\ paging.pc = "request"
  /\ paging' = [paging EXCEPT !.requested = Append(@, paging.pageToken),
                              !.pc = "failed"]
  /\ UNCHANGED <<ledgerVars, call, dir, boot>>

NextPages == PageReturned \/ PageSoftError \/ PageCallFails

SpecPages == InitPages /\ [][NextPages]_vars

----------------------------------------------------------------------------
(* actions.py: labelIdsToLabels, createLabel, labelsToLabelIds *)

\* A label name or id is <<word, case>>: the word in lower case and how the
\* text is cased ("lower", "upper", or "mixed" for anything else), so that
\* 'Spam' is <<"spam", "mixed">> and 'SPAM' is <<"spam", "upper">>.
Lower(text) == <<text[1], "lower">>
Upper(text) == <<text[1], "upper">>

\* __init__.py reserved_labels and system_labels
reserved_labels ==
  {<<w, "lower">> : w \in
     {"inbox", "spam", "trash", "unread", "starred", "important", "sent",
      "draft", "chat", "chats", "migrated", "todo", "todos", "buzz", "bin",
      "allmail", "drafts", "archive", "archived", "muted"}}
system_labels ==
  {<<w, "upper">> : w \in
     {"inbox", "spam", "trash", "unread", "starred", "important", "sent",
      "draft", "category_personal", "category_social", "category_promotions",
      "category_updates", "category_forums"}}

\* The labels the remote may hold before the run: any of Work (Label_1),
\* projects (Label_2) and INBOX (INBOX), also none at all.
RemoteLabelChoices ==
  SUBSET {[id |-> <<"label_1", "mixed">>, name |-> <<"work", "mixed">>],
          [id |-> <<"label_2", "mixed">>, name |-> <<"projects", "lower">>],
          [id |-> <<"inbox", "upper">>, name |-> <<"inbox", "upper">>]}

\* The names and the ids the lookups of the model are asked for.
NameChoices ==
  {<<"work", "mixed">>, <<"projects", "mixed">>, <<"chat", "lower">>,
   <<"chats", "mixed">>, <<"drafts", "lower">>, <<"spam", "lower">>,
   <<"inbox", "upper">>, <<"todo", "mixed">>}
IdChoices ==
  {<<"label_1", "mixed">>, <<"label_2", "mixed">>, <<"inbox", "upper">>,
   <<"label_9", "mixed">>}

\* The sequences of 1..MaxNames elements of S.
Lists(S) == UNION {[1..n -> S] : n \in 1..MaxNames}

\* The id the remote gives a label it creates.
NewId(label_name) == <<label_name[1], "new">>

\* for a_label in results['labels']: allLabelIds[a_label['name']] = a_label['id']
ByName(labels) ==
  [n \in {l.name : l \in labels} |-> (CHOOSE l \in labels : l.name = n).id]

\* for a_label in results['labels']: allLabels[a_label['id']] = a_label['name']
ById(labels) ==
  [i \in {l.id : l \in labels} |-> (CHOOSE l \in labels : l.id = i).name]

\* callGAPI as createLabel and the lookups call it: no throw_reasons, no
\* retry_reasons, no soft_errors, here on its first pass.
PlainCall ==
  [soft_errors |-> FALSE, throw_reasons |-> {}, retry_reasons |-> {}, n |-> 1]

\* labels.create answers 409 when a label of that name exists, whatever the
\* case of its letters.
NameTaken(D, label_name) ==
  \E l \in D.remoteLabels : Lower(l.name) = Lower(label_name)

\* createLabel: D with the outcome in D.pc ("run": returned D.created_id;
\* "exit": callGAPI ended the process; "raised": raise e).  other says that
\* the remote refuses the create for a reason other than the name.
createLabel(D, label_name, other) ==
  IF ~NameTaken(D, label_name) /\ ~other
  THEN [D EXCEPT !.creates = @ + 1,
                 !.remoteLabels = @ \cup {[id |-> NewId(label_name), name |-> label_name]},
                 !.created_id = NewId(label_name)]
  ELSE LET code == IF NameTaken(D, label_name) THEN "409" ELSE "400"
           how == ClassifyHttpError(PlainCall, code)
       IN IF how = "raised"
          THEN IF code = "409"
               THEN LET match == {l \in D.remoteLabels : Lower(l.name) = Lower(label_name)}
                    IN IF match # {}
                       THEN [D EXCEPT !.creates = @ + 1, !.lists_create = @ + 1,
                                      !.created_id = (CHOOSE l \in match : TRUE).id]
                       ELSE [D EXCEPT !.creates = @ + 1, !.lists_create = @ + 1,
                                      !.pc = "raised"]
               ELSE [D EXCEPT !.creates = @ + 1, !.pc = "raised"]
          ELSE [D EXCEPT !.creates = @ + 1, !.pc = "exit", !.exit_code = 5]

\* As Normalized, but upper-casing every reserved name.
Normalized_upper(label) == Upper(label)

\* The branch for label.lower() in reserved_labels.
Normalized(label) ==
  IF Lower(label) = <<"chat", "lower">> THEN <<"chat", "upper">>
  ELSE IF Lower(label) = <<"chats", "lower">> THEN <<"chat", "upper">>
  ELSE IF Lower(label) \in {<<"draft", "lower">>, <<"drafts", "lower">>}
       THEN <<"draft", "upper">>
  ELSE Upper(label)

\* As Remember, but the cache is left as it is.
Remember_nothing(cache, label, new_label_id) == cache

\* allLabelIds[label] = new_label_id
Remember(cache, label, new_label_id) ==
  [n \in DOMAIN cache \cup {label} |-> IF n = label THEN new_label_id ELSE cache[n]]

\* One pass of the loop of labelsToLabelIds.
ResolveOne(D, label, other) ==
  IF label \in DOMAIN D.allLabelIds
  THEN [D EXCEPT !.labelIds = Append(@, D.allLabelIds[label])]
  ELSE IF label \in system_labels
  THEN [D EXCEPT !.labelIds = Append(@, label)]
  ELSE IF Upper(label) \in system_labels
  THEN [D EXCEPT !.labelIds = Append(@, Upper(label))]
  ELSE IF Lower(label) \in reserved_labels
  THEN [D EXCEPT !.labelIds = Append(@, Normalized(label))]
  ELSE LET C == createLabel(D, label, other)
       IN IF C.pc # "run" THEN C
          ELSE [C EXCEPT !.labelIds = Append(@, C.created_id),
                         !.allLabelIds = Remember(@, label, C.created_id),
                         !.created = @ \cup {label}]

\* The loop over labels[i..]; it ends where the process or the call ends.
RECURSIVE ResolveFrom(_, _, _, _)
ResolveFrom(D, labels, i, other) ==
  IF i > Len(labels) \/ D.pc # "run" THEN D
  ELSE ResolveFrom(ResolveOne(D, labels[i], other), labels, i + 1, other)

\* if allLabelIds == {}: (and if allLabels == {}:); loads counts the list
\* calls made for this cache so far.
NotLoaded(cache, loads) == DOMAIN cache = {}

\* labelsToLabelIds(labels)
labelsToLabelIds(D, labels, other) ==
  LET load == NotLoaded(D.allLabelIds, D.lists_ids)
      L == [D EXCEPT !.lookups = @ + 1, !.uses_ids = @ + 1,
                     !.lists_ids = IF load THEN @ + 1 ELSE @,
                     !.allLabelIds = IF load THEN ByName(D.remoteLabels) ELSE @,
                     !.labelIds = << >>,
                     !.last = [op |-> "labelsToLabelIds", args |-> labels, cache |-> << >>,
                               created |-> D.created, creates |-> D.creates,
                               lists |-> D.lists_ids + D.lists_create, taken |-> {}]]
      M == [L EXCEPT !.last.cache = L.allLabelIds,
                     !.last.taken = {n \in NameChoices : NameTaken(L, n)}]
  IN ResolveFrom(M, labels, 1, other)

\* labelIdsToLabels(labelIds)
labelIdsToLabels(D, labelIds) ==
  LET load == NotLoaded(D.allLabels, D.lists_names)
      cache == IF load THEN ById(D.remoteLabels) ELSE D.allLabels
  IN [D EXCEPT !.lookups = @ + 1, !.uses_names = @ + 1,
               !.lists_names = IF load THEN @ + 1 ELSE @,
               !.allLabels = cache,
               !.labelIds = [i \in 1..Len(labelIds) |->
                               IF labelIds[i] \in DOMAIN cache THEN cache[labelIds[i]]
                               ELSE labelIds[i]],
               !.last = [op |-> "labelIdsToLabels", args |-> labelIds, cache |-> cache,
                         created |-> D.created, creates |-> D.creates,
                         lists |-> D.lists_names, taken |-> {}]]

InitLabels ==
  /\ ledger = EmptyLedger
  /\ committed = EmptyLedger
  /\ files = {}
  /\ backup_count = 0
  /\ remote = Mailbox
  /\ run = IdleRun
  /\ hist = [runs |-> 0, prev |-> NoneRec, failed |-> {}, interrupted |-> FALSE]
  /\ call = NoneRec /\ paging = NoneRec /\ boot = NoneRec
  /\ \E labels \in RemoteLabelChoices :
       dir = [remoteLabels |-> labels, allLabelIds |-> << >>, allLabels |-> << >>,
              pc |-> "run", exit_code |-> 0, labelIds |-> << >>,
              created_id |-> <<"", "">>, created |-> {},
              lookups |-> 0, uses_ids |-> 0, uses_names |-> 0,
              lists_ids |-> 0, lists_names |-> 0, lists_create |-> 0, creates |-> 0,
              last |-> NoneRec]

Resolve(labels, other) ==
  /\ dir # NoneRec /\ dir.pc = "run"
  /\ dir.lookups < MaxLookups
  /\ dir' = labelsToLabelIds(dir, labels, other)
  /\ UNCHANGED <<ledgerVars, call, paging, boot>>

ToNames(labelIds) ==
  /\ dir # NoneRec /\ dir.pc = "run"
  /\ dir.lookups < MaxLookups
  /\ dir' = labelIdsToLabels(dir, labelIds)
  /\ UNCHANGED <<ledgerVars, call, paging, boot>>

NextLabels ==
  \/ \E labels \in Lists(NameChoices), other \in BOOLEAN : Resolve(labels, other)
  \/ \E labelIds \in Lists(IdChoices) : ToNames(labelIds)

SpecLabels == InitLabels /\ [][NextLabels]_vars

----------------------------------------------------------------------------
(* main.py: main, up to execute_action; database.py: check_db_settings *)

\* A version is the text of the settings table, here the sequence of its
\* digits: '6' is <<6>> and '10' is <<1, 0>>.
__db_schema_version__ == <<6>>
__db_schema_min_version__ == <<6>>

\* The db_version a ledger file may hold when the run starts.
VersionChoices == {<<5>>, <<6>>, <<7>>, <<1, 0>>}

\* cli.py action_choices
action_choices ==
  {"backup", "backup-chat", "restore", "restore-group", "restore-mbox", "count",
   "purge", "purge-labels", "print-labels", "estimate", "quota", "reindex",
   "revoke", "split-mbox", "create-project", "delete-projects",
   "check-service-account", "create-label"}

RestoreActionNames == {"restore", "restore-group", "restore-mbox"}

\* a < b on str: a is a proper prefix of b, or a has the smaller character
\* at the first place where they differ.
StrLess(a, b) ==
  \E k \in 1..Len(b) :
    /\ k <= Len(a) + 1
    /\ \A j \in 1..(k - 1) : a[j] = b[j]
    /\ k = Len(a) + 1 \/ a[k] < b[k]

\* The number a version text stands for.
RECURSIVE NumberOf(_)
NumberOf(v) ==
  IF v = << >> THEN 0 ELSE 10 * NumberOf(SubSeq(v, 1, Len(v) - 1)) + v[Len(v)]

\* sys.exit(4) and sys.exit(5) of check_db_settings, systemErrorExit(6, ...)
\* of readFile and writeFile.
SchemaExitCode == 4
AccountExitCode == 5
FileExitCode == 6

\* As VersionRefused, without the test against __db_schema_version__.
VersionRefused_only_below(db_version) ==
  StrLess(db_version, __db_schema_min_version__)

\* The first test of check_db_settings.
VersionRefused(db_version) ==
  \/ StrLess(db_version, __db_schema_min_version__)
  \/ StrLess(__db_schema_version__, db_version)

\* The schema versions convertDB has a step for, in the order of its tests.
MigrationSteps == <<3, 4, 5, 6>>

\* convertDB(sqlconn, uidvalidity, oldversion): the steps whose test
\* oldversion < 'n' holds, in the order of the tests, then UPDATE settings
\* SET value = __db_schema_version__ WHERE name = 'db_version'.
convertDB(oldversion) ==
  LET applies(n) == StrLess(oldversion, <<n>>)
  IN [steps |-> SelectSeq(MigrationSteps, applies),
      db_version |-> __db_schema_version__]

\* The accounts of the model, as <<word, case>>: 'a@example.com',
\* 'A@Example.com' and 'b@example.com'.
EmailChoices == {<<"a@example.com", "lower">>, <<"a@example.com", "mixed">>,
                 <<"b@example.com", "lower">>}

\* As SameAccount, comparing the texts as they are.
SameAccount_exact(user_email_address, email_address) ==
  user_email_address = email_address

\* The negation of the second test of check_db_settings:
\* user_email_address.lower() != db_settings['email_address'].lower()
SameAccount(user_email_address, email_address) ==
  Lower(user_email_address) = Lower(email_address)

\* The test of main for opening msg-db.sqlite.
OpensLedger(action, isfile) ==
  /\ action \notin {"count", "purge", "purge-labels", "print-labels", "quota",
                     "revoke", "create-label"}
  /\ action \notin {"estimate", "restore-mbox", "restore-group"} \/ isfile

\* A run of main after the options are parsed: the action, whether the
\* account is reached by a service account, whether the local folder and
\* msg-db.sqlite exist and the settings the file holds (file_version,
\* file_email), and --email.  db_version and email_address are the settings
\* once the ledger is open, calls lists the remote calls made so far, wrote
\* collects the steps that wrote to the ledger.
\* main as it starts: nothing signed in, opened, checked, called or written.
BootStart(action, service_account, isdir, isfile, version, email, file_email) ==
  [action |-> action, service_account |-> service_account,
   isdir |-> isdir, isfile |-> isfile, newDB |-> ~isfile,
   file_version |-> IF isfile THEN version ELSE << >>,
   file_email |-> IF isfile THEN file_email ELSE <<"", "">>,
   email |-> email, db_version |-> << >>,
   email_address |-> <<"", "">>,
   pc |-> "start", exit_code |-> 0, authorized |-> FALSE,
   opened |-> FALSE, checked |-> FALSE, calls |-> << >>,
   wrote |-> {}, cause |-> ""]

InitBoot ==
  /\ ledger = EmptyLedger
  /\ committed = EmptyLedger
  /\ files = {}
  /\ backup_count = 0
  /\ remote = Mailbox
  /\ run = IdleRun
  /\ hist = [runs |-> 0, prev |-> NoneRec, failed |-> {}, interrupted |-> FALSE]
  /\ call = NoneRec /\ paging = NoneRec /\ dir = NoneRec
  /\ \E action \in action_choices, isdir \in BOOLEAN, isfile \in BOOLEAN,
        email \in EmailChoices, file_email \in EmailChoices,
        version \in VersionChoices, service_account \in BOOLEAN :
       /\ ~isdir => ~isfile
       /\ ~isfile => version = __db_schema_version__ /\ file_email = email
       /\ boot = BootStart(action, service_account, isdir, isfile, version,
                            email, file_email)

\* doGYBCheckForUpdates: once a week it asks the releases page; a failure of
\* the request is passed over.
CheckForUpdates(due) ==
  /\ boot # NoneRec /\ boot.pc = "start"
  /\ boot' = [boot EXCEPT !.pc = "options",
                          !.calls = IF due THEN Append(@, "releases") ELSE @]
  /\ UNCHANGED <<ledgerVars, call, paging, dir>>

\* The actions main ends before it looks at the folder; the others go on.
EarlyAction ==
  /\ boot # NoneRec /\ boot.pc = "options"
  /\ boot' = IF boot.action \in {"split-mbox", "create-project", "delete-projects",
                                  "check-service-account"}
             THEN [boot EXCEPT !.pc = "exit", !.exit_code = 1, !.cause = "action"]
             ELSE [boot EXCEPT !.pc = "auth"]
  /\ UNCHANGED <<ledgerVars, call, paging, dir>>

\* What the sign-in may come to: "ok", the token of another account, no
\* network, a token that cannot be refreshed, an HttpError, or a credentials
\* file that cannot be written.
AuthOutcomes(service_account) ==
  IF service_account THEN {"ok", "network", "refresh"}
  ELSE {"ok", "mismatch", "network", "refresh", "http", "file"}

\* The exit code of callGAPI (no soft_errors) for a failure that is not
\* retried any more.
CallExitCode(outcome) ==
  IF outcome = "http" THEN 5
  ELSE IF outcome = "refresh" THEN 403
  ELSE IF outcome = "certificate" THEN 8
  ELSE 4

\* The exit code of buildGAPIServiceObject for a failure.
ServiceExitCode(outcome) == IF outcome = "network" THEN 4 ELSE 5

\* The sign-in of main: with a service account buildGAPIServiceObject, which
\* refreshes the credentials and fetches the discovery document; otherwise
\* doesTokenMatchEmail, which calls oauth2 userinfo through callGAPI, and
\* buildGAPIObject('gmail').
Authorize(outcome) ==
  /\ boot # NoneRec /\ boot.pc = "auth"
  /\ outcome \in AuthOutcomes(boot.service_account)
  /\ boot' =
       IF boot.service_account
       THEN IF outcome = "ok"
            THEN [boot EXCEPT !.pc = "folder", !.authorized = TRUE,
                              !.calls = @ \o <<"token", "discovery">>]
            ELSE [boot EXCEPT !.pc = "exit", !.calls = Append(@, "token"),
                              !.exit_code = ServiceExitCode(outcome),
                              !.cause = outcome]
       ELSE IF outcome = "ok"
            THEN [boot EXCEPT !.pc = "folder", !.authorized = TRUE,
                              !.calls = @ \o <<"discovery", "userinfo", "discovery">>]
            ELSE IF outcome = "mismatch"
            THEN [boot EXCEPT !.pc = "exit", !.exit_code = 9, !.cause = outcome,
                              !.calls = @ \o <<"discovery", "userinfo">>]
            ELSE IF outcome = "file"
            THEN [boot EXCEPT !.pc = "exit", !.exit_code = FileExitCode,
                              !.cause = outcome]
            ELSE [boot EXCEPT !.pc = "exit", !.exit_code = CallExitCode(outcome),
                              !.cause = outcome,
                              !.calls = @ \o <<"discovery", "userinfo">>]
  /\ UNCHANGED <<ledgerVars, call, paging, dir>>

\* if not os.path.isdir(options.local_folder): a backup makes the folder, a
\* restore gives up, the other actions go on without it.
FolderTest ==
  /\ boot # NoneRec /\ boot.pc = "folder"
  /\ boot' = IF ~boot.isdir /\ boot.action \in RestoreActionNames
             THEN [boot EXCEPT !.pc = "exit", !.exit_code = 3, !.cause = "folder"]
             ELSE IF ~boot.isdir /\ boot.action \in {"backup", "backup-chat"}
             THEN [boot EXCEPT !.pc = "open", !.isdir = TRUE]
             ELSE [boot EXCEPT !.pc = "open"]
  /\ UNCHANGED <<ledgerVars, call, paging, dir>>

\* As OpenLedger, but main goes on without calling check_db_settings.
OpenLedger_unchecked ==
  /\ boot # NoneRec /\ boot.pc = "open"
  /\ boot' = IF OpensLedger(boot.action, boot.isfile) /\ ~boot.isdir
             THEN [boot EXCEPT !.pc = "OperationalError"]
             ELSE IF OpensLedger(boot.action, boot.isfile)
             THEN [boot EXCEPT !.pc = "migrate", !.opened = TRUE,
                               !.wrote = IF boot.newDB THEN @ \cup {"initializeDB"} ELSE @,
                               !.db_version = IF boot.newDB THEN __db_schema_version__
                                              ELSE boot.file_version,
                               !.email_address = IF boot.newDB THEN boot.email
                                                 ELSE boot.file_email]
             ELSE [boot EXCEPT !.pc = "execute"]
  /\ UNCHANGED <<ledgerVars, call, paging, dir>>

\* sqlite3.connect, initializeDB for a new file, get_db_settings: or no
\* ledger at all for the actions that do without.  Without the folder
\* sqlite3.connect raises OperationalError, which nothing catches.
OpenLedger ==
  /\ boot # NoneRec /\ boot.pc = "open"
  /\ boot' = IF OpensLedger(boot.action, boot.isfile) /\ ~boot.isdir
             THEN [boot EXCEPT !.pc = "OperationalError"]
             ELSE IF OpensLedger(boot.action, boot.isfile)
             THEN [boot EXCEPT !.pc = "check", !.opened = TRUE,
                               !.wrote = IF boot.newDB THEN @ \cup {"initializeDB"} ELSE @,
                               !.db_version = IF boot.newDB THEN __db_schema_version__
                                              ELSE boot.file_version,
                               !.email_address = IF boot.newDB THEN boot.email
                                                 ELSE boot.file_email]
             ELSE [boot EXCEPT !.pc = "execute"]
  /\ UNCHANGED <<ledgerVars, call, paging, dir>>

\* check_db_settings(db_settings, options.action, options.email)
check_db_settings ==
  /\ boot # NoneRec /\ boot.pc = "check"
  /\ boot' = IF VersionRefused(boot.db_version)
             THEN [boot EXCEPT !.pc = "exit", !.exit_code = SchemaExitCode,
                               !.checked = TRUE, !.cause = "schema"]
             ELSE IF /\ boot.action \notin RestoreActionNames
                     /\ ~SameAccount(boot.email, boot.email_address)
             THEN [boot EXCEPT !.pc = "exit", !.exit_code = AccountExitCode,
                               !.checked = TRUE, !.cause = "account"]
             ELSE [boot EXCEPT !.pc = "migrate", !.checked = TRUE]
  /\ UNCHANGED <<ledgerVars, call, paging, dir>>

\* The block of main after check_db_settings: convertDB for an older ledger
\* (called with two arguments where three are declared: TypeError), the
\* reindex action, or on to execute_action.
AfterCheck ==
  /\ boot # NoneRec /\ boot.pc = "migrate"
  /\ boot' = IF boot.action \in RestoreActionNames
             THEN [boot EXCEPT !.pc = "execute"]
             ELSE IF StrLess(boot.db_version, __db_schema_version__)
             THEN [boot EXCEPT !.pc = "TypeError"]
             ELSE IF boot.action = "reindex"
             THEN [boot EXCEPT !.pc = "exit", !.exit_code = 0,
                               !.wrote = @ \cup {"reindex"}]
             ELSE [boot EXCEPT !.pc = "execute"]
  /\ UNCHANGED <<ledgerVars, call, paging, dir>>

\* execute_action(options, gmail, sqlconn, sqlcur, newDB): legacy.execute_action
\* prints and writes nothing.  sqlconn and sqlcur are globals of the module
\* that main binds only in the block the ledgerless actions pass over: for
\* them the call raises NameError.
execute_action ==
  /\ boot # NoneRec /\ boot.pc = "execute"
  /\ boot' = IF boot.action \in {"count", "purge", "purge-labels", "print-labels",
                                  "quota", "revoke", "create-label"}
             THEN [boot EXCEPT !.pc = "NameError"]
             ELSE [boot EXCEPT !.pc = "done"]
  /\ UNCHANGED <<ledgerVars, call, paging, dir>>

NextBoot ==
  \/ \E due \in BOOLEAN : CheckForUpdates(due)
  \/ EarlyAction
  \/ \E outcome \in {"ok", "mismatch", "network", "refresh", "http", "file"} :
       Authorize(outcome)
  \/ FolderTest
  \/ OpenLedger
  \/ check_db_settings
  \/ AfterCheck
  \/ execute_action

SpecBoot == InitBoot /\ [][NextBoot]_vars

----------------------------------------------------------------------------
(* main.py and the runs together: main starts as in SpecBoot and, where it *)
(* hands over to execute_action for backup, restore or restore-group, one   *)
(* run of the loop of spec.md 4.4 and 4.5 follows inside that call.        *)

RunActionNames == {"backup"} \cup RestoreActions

\* The ledger of a folder that an earlier backup has left with the first
\* message of the mailbox in it.
StoredLedger ==
  InsertBackedUp(EmptyLedger, IdOf(1), EmlFile(IdOf(1)), Mailbox[IdOf(1)])

InitRun ==
  /\ backup_count = 0
  /\ remote = Mailbox
  /\ run = IdleRun
  /\ hist = [runs |-> 0, prev |-> NoneRec, failed |-> {}, interrupted |-> FALSE]
  /\ call = NoneRec /\ paging = NoneRec /\ dir = NoneRec
  /\ \E action \in RunActionNames, isdir \in BOOLEAN, isfile \in BOOLEAN,
        email \in EmailChoices, file_email \in EmailChoices,
        version \in VersionChoices, service_account \in BOOLEAN :
       /\ ~isdir => ~isfile
       /\ ~isfile => version = __db_schema_version__ /\ file_email = email
       /\ boot = BootStart(action, service_account, isdir, isfile, version,
                            email, file_email)
       /\ ledger = IF isfile THEN StoredLedger ELSE EmptyLedger
       /\ committed = ledger
       /\ files = IF isfile THEN {EmlFile(IdOf(1))} ELSE {}

\* execute_action is entered for a backup: the run starts.
RunBackup ==
  /\ boot # NoneRec /\ boot.pc = "execute" /\ boot.action = "backup"
  /\ hist.runs = 0
  /\ StartBackup("backup")

\* execute_action is entered for a restore.
RunRestore ==
  /\ boot # NoneRec /\ boot.pc = "execute" /\ boot.action \in RestoreActions
  /\ hist.runs = 0
  /\ StartRestore(boot.action)

\* The run has ended: execute_action is left and main with it.
RunReturns ==
  /\ run.phase = "idle" /\ hist.runs > 0
  /\ execute_action

NextRun ==
  \/ \E due \in BOOLEAN : CheckForUpdates(due)
  \/ EarlyAction
  \/ \E outcome \in {"ok", "mismatch", "network", "refresh", "http", "file"} :
       Authorize(outcome)
  \/ FolderTest
  \/ OpenLedger
  \/ check_db_settings
  \/ AfterCheck
  \/ RunBackup
  \/ RunRestore
  \/ Lookup
  \/ SubmitBatch
  \/ \E m \in MsgIds : BackupCallback(m)
  \/ \E m \in MsgIds : RefreshCallback(m)
  \/ \E m \in MsgIds : RestoreCallback(m)
  \/ CommitBatch
  \/ BeginRefresh
  \/ BeginFinalize
  \/ Finish
  \/ \E result \in {"SUCCESS", "FAILURE"} : RestoreToGroup(result)
  \/ Interrupt
  \/ RunReturns

SpecRun == InitRun /\ [][NextRun]_vars

----------------------------------------------------------------------------
(* Restores over a ledger that holds markers, resumed or, with --noresume, *)
(* started from the beginning (spec.md 4.5: a full restart ignores the     *)
(* markers).                                                               *)

\* The ids a ledger can hold: those whose text is an integer.
StoredIds == {m \in MsgIds : IsIntegerText(m)}

\* The ledger of a folder whose messages are all backed up and of which
\* earlier restores have marked some.
MarkedLedger(marked) ==
  [EmptyLedger EXCEPT
     !.messages = SetToBag({MessageRow(m, EmlFile(m)) : m \in StoredIds}),
     !.restored_messages = SetToBag(marked)]

InitRestore ==
  /\ \E marked \in SUBSET StoredIds :
       /\ ledger = MarkedLedger(marked)
       /\ committed = MarkedLedger(marked)
  /\ files = {EmlFile(m) : m \in StoredIds}
  /\ backup_count = 0
  /\ remote = Mailbox
  /\ run = IdleRun
  /\ hist = [runs |-> 0, prev |-> NoneRec, failed |-> {}, interrupted |-> FALSE]
  /\ call = NoneRec /\ paging = NoneRec /\ dir = NoneRec /\ boot = NoneRec

\* A restore starts with --noresume: every entry of the ledger is
\* outstanding, marked or not.
RestartRestore(action) ==
  /\ run.phase = "idle"
  /\ hist.runs < MaxRuns
  /\ run' = [IdleRun EXCEPT
               !.phase = "transfer", !.action = action, !.noresume = TRUE,
               !.startMessages = MessageNums(ledger),
               !.startMarkers = BagToSet(ledger.restored_messages),
               !.outstanding = MessageNums(ledger)]
  /\ backup_count' = 0
  /\ UNCHANGED <<ledger, committed, files, remote, hist, call, paging, dir, boot>>

NextRestore ==
  \/ \E a \in RestoreActions : StartRestore(a)
  \/ \E a \in RestoreActions : RestartRestore(a)
  \/ SubmitBatch
  \/ \E m \in MsgIds : RestoreCallback(m)
  \/ CommitBatch
  \/ BeginFinalize
  \/ Finish
  \/ \E result \in {"SUCCESS", "FAILURE"} : RestoreToGroup(result)
  \/ Interrupt

SpecRestore == InitRestore /\ [][NextRestore]_vars

----------------------------------------------------------------------------
(* main.py and the Diffing of a backup over a folder that has lost files:  *)
(* the ledger holds every message an earlier backup could store, and any   *)
(* of their files may have been removed by hand since.                     *)

\* The ledger after a backup that stored the messages S.
RECURSIVE BackedUpLedger(_)
BackedUpLedger(S) ==
  IF S = {} THEN EmptyLedger
  ELSE LET m == First(S)
       IN InsertBackedUp(BackedUpLedger(S \ {m}), m, EmlFile(m), Mailbox[m])

InitLookup ==
  /\ backup_count = 0
  /\ remote = Mailbox
  /\ run = IdleRun
  /\ hist = [runs |-> 0, prev |-> NoneRec, failed |-> {}, interrupted |-> FALSE]
  /\ call = NoneRec /\ paging = NoneRec /\ dir = NoneRec
  /\ \E isfile \in BOOLEAN, version \in VersionChoices,
        service_account \in BOOLEAN,
        kept \in SUBSET {EmlFile(m) : m \in StoredIds} :
       /\ ~isfile => version = __db_schema_version__ /\ kept = {}
       /\ boot = BootStart("backup", service_account, TRUE, isfile, version,
                            <<"a@example.com", "lower">>,
                            <<"a@example.com", "lower">>)
       /\ ledger = IF isfile THEN BackedUpLedger(StoredIds) ELSE EmptyLedger
       /\ committed = ledger
       /\ files = kept

NextLookup ==
  \/ \E due \in BOOLEAN : CheckForUpdates(due)
  \/ EarlyAction
  \/ \E outcome \in {"ok", "mismatch", "network", "refresh", "http", "file"} :
       Authorize(outcome)
  \/ FolderTest
  \/ OpenLedger
  \/ check_db_settings
  \/ AfterCheck
  \/ RunBackup
  \/ Lookup
  \/ Interrupt
  \/ RunReturns

SpecLookup == InitLookup /\ [][NextLookup]_vars

----------------------------------------------------------------------------
(* actions.py: backup_message and backup_chat statement by statement: the  *)
(* file is written, then the try block inserts the rows.  run.batch holds  *)
(* the item whose callback stands between the two.                         *)

\* filename as the callback of the action computes it.
CallbackFilename(action, request_id, message_num) ==
  IF action = "backup-chat" THEN ChatFile(message_num)
  ELSE IF request_id = message_num THEN EmlFile(message_num)
  ELSE ReqFile(request_id)

\* As WriteBackupFile, but the file is not written.
WriteBackupFile_skipped(W, action, request_id, response) ==
  [W EXCEPT !.backup_count = @ + 1]

\* backup_count += 1 ... with open(full_filename, 'wb') as f: f.write(...)
WriteBackupFile(W, action, request_id, response) ==
  [W EXCEPT !.backup_count = @ + 1,
            !.files = @ \cup {CallbackFilename(action, request_id, response.id)}]

\* try: INSERT INTO messages ...; DELETE FROM labels ...; INSERT INTO labels
InsertBackupRecord(W, action, request_id, response) ==
  [W EXCEPT !.ledger = InsertBackedUp(@, response.id,
                                      CallbackFilename(action, request_id, response.id),
                                      response.labelIds)]

InitWrite ==
  /\ \E stored \in BOOLEAN, action \in BackupActions :
       /\ ledger = IF stored THEN StoredLedger ELSE EmptyLedger
       /\ committed = ledger
       /\ files = IF stored THEN {EmlFile(IdOf(1))} ELSE {}
       /\ run = [IdleRun EXCEPT !.phase = "transfer", !.action = action,
                                !.outstanding = MsgIds \ MessageNums(ledger)]
  /\ backup_count = 0
  /\ remote = Mailbox
  /\ hist = [runs |-> 0, prev |-> NoneRec, failed |-> {}, interrupted |-> FALSE]
  /\ call = NoneRec /\ paging = NoneRec /\ dir = NoneRec /\ boot = NoneRec

\* The callback of m is invoked with an exception or with no response: it
\* returns at once.
CallbackReturnsEarly(m) ==
  /\ run.phase = "transfer" /\ run.batch = {}
  /\ m \in run.outstanding
  /\ run' = [run EXCEPT !.outstanding = @ \ {m}, !.failed = @ \cup {m}]
  /\ UNCHANGED <<ledger, committed, files, backup_count, remote, hist, call, paging, dir, boot>>

\* The callback of m is invoked with the message and has written the file.
CallbackWritesFile(m) ==
  /\ run.phase = "transfer" /\ run.batch = {}
  /\ m \in run.outstanding
  /\ LET W == WriteBackupFile(World, run.action, m, Fetched(m))
     IN files' = W.files /\ backup_count' = W.backup_count
  /\ run' = [run EXCEPT !.outstanding = @ \ {m}, !.batch = {m}]
  /\ UNCHANGED <<ledger, committed, remote, hist, call, paging, dir, boot>>

\* The callback of m goes through its try block and returns.
CallbackInserts(m) ==
  /\ run.phase = "transfer"
  /\ m \in run.batch
  /\ ledger' = InsertBackupRecord(World, run.action, m, Fetched(m)).ledger
  /\ run' = [run EXCEPT !.batch = {}, !.succeeded = @ \cup {m}]
  /\ UNCHANGED <<committed, files, backup_count, remote, hist, call, paging, dir, boot>>

\* The driver commits between two callbacks.
CommitWrites ==
  /\ run.phase = "transfer" /\ run.batch = {}
  /\ ledger # committed
  /\ committed' = ledger
  /\ UNCHANGED <<ledger, files, backup_count, remote, run, hist, call, paging, dir, boot>>

NextWrite ==
  \/ \E m \in MsgIds : CallbackReturnsEarly(m)
  \/ \E m \in MsgIds : CallbackWritesFile(m)
  \/ \E m \in MsgIds : CallbackInserts(m)
  \/ CommitWrites
  \/ Interrupt

SpecWrite == InitWrite /\ [][NextWrite]_vars

----------------------------------------------------------------------------
(* Properties of callGAPIpages under SpecPages *)

\* C14: the listing goes on after every page that carries a cursor, also
\* when the page has no items, and ends with the first page that carries
\* none, also when that page has items: of the pages received, all but the
\* last carry a cursor, and the last carries none exactly when the listing
\* has returned.
C14_StopsWithoutCursor ==
  LET got == paging.received
  IN /\ \A i \in 1..Len(got) :
          /\ got[i] \in {ThisPage(paging.pages[i]), EmptyPage}
          /\ i < Len(got) => got[i].has_token
     /\ paging.pc = "done" => (Len(got) >= 1 /\ ~got[Len(got)].has_token)
     /\ (paging.pc = "request" /\ Len(got) >= 1) => got[Len(got)].has_token

\* The listing has returned: it went on after a page with a cursor and no
\* items, and ended with a page that has items and no cursor.
C14_Witness ==
  /\ paging.pc = "done"
  /\ \E i \in 1..(Len(paging.received) - 1) :
       paging.received[i].has_token /\ PageItems(paging.received[i]) = << >>
  /\ PageItems(paging.received[Len(paging.received)]) # << >>

\* The items of the first n of the pages, in the order of the pages.
RECURSIVE ItemsOfPages(_, _)
ItemsOfPages(got, n) ==
  IF n = 0 THEN << >>
  ELSE ItemsOfPages(got, n - 1)
         \o (IF got[n].has_items THEN got[n].items ELSE << >>)

\* C15: the first request carries no cursor, every later request carries
\* the cursor of the page received just before it, no cursor is requested
\* twice, and what has been collected (and, at the end, returned) is the
\* items of the pages received, concatenated in the order of the pages.
C15_EachPageOnceInOrder ==
  LET asked == paging.requested
      got == paging.received
  IN /\ Len(asked) >= 1 => asked[1] = NoToken
     /\ \A i \in 2..Len(asked) :
          got[i - 1].has_token /\ asked[i] = got[i - 1].nextPageToken
     /\ \A i, j \in 1..Len(asked) : i # j => asked[i] # asked[j]
     /\ Len(got) \in {Len(asked), Len(asked) - 1}
     /\ paging.all_pages = ItemsOfPages(got, Len(got))
     /\ paging.total_items = Len(paging.all_pages)

\* The listing has returned after MaxPages requests, with items of its
\* first and of its last page.
C15_Witness ==
  /\ paging.pc = "done"
  /\ Len(paging.requested) = MaxPages
  /\ PageItems(paging.received[1]) # << >>
  /\ PageItems(paging.received[MaxPages]) # << >>


----------------------------------------------------------------------------
(* Properties of the label lookups under SpecLabels *)

\* The last lookup was a labelsToLabelIds call.
Resolved == dir # NoneRec /\ dir.last # NoneRec /\ dir.last.op = "labelsToLabelIds"

\* The system id of each name of NameChoices that belongs to the system or
\* reserved vocabulary whatever its case.
SystemIdOf ==
  [n \in {<<"chat", "lower">>, <<"chats", "mixed">>, <<"drafts", "lower">>,
          <<"spam", "lower">>, <<"inbox", "upper">>, <<"todo", "mixed">>} |->
     IF n[1] \in {"chat", "chats"} THEN <<"chat", "upper">>
     ELSE IF n[1] = "drafts" THEN <<"draft", "upper">>
     ELSE <<n[1], "upper">>]

\* The cache that holds only Work -> Label_1.
OnlyWork ==
  /\ DOMAIN dir.last.cache = {<<"work", "mixed">>}
  /\ dir.last.cache[<<"work", "mixed">>] = <<"label_1", "mixed">>

\* C16: labelsToLabelIds gives each name the id of the first rule that
\* applies: the cached id when the name is in the cache; otherwise the
\* normalized system id when the name is in the system or reserved vocabulary
\* whatever its case ('chat' and 'chats' give CHAT, 'drafts' gives DRAFT,
\* 'spam' gives SPAM), and then no label is created; otherwise the label is
\* created remotely.  With the cache holding only Work -> Label_1, 'Work'
\* gives Label_1, 'chat' CHAT, 'spam' SPAM, and 'Projects' a create call.
C16_FirstRuleThatApplies ==
  Resolved =>
    LET args == dir.last.args
        cache == dir.last.cache
        vocabulary(n) == n \notin DOMAIN cache /\ n \in DOMAIN SystemIdOf
        unknown(n) == n \notin DOMAIN cache /\ n \notin DOMAIN SystemIdOf
    IN /\ \A i \in 1..Len(dir.labelIds) :
            /\ args[i] \in DOMAIN cache => dir.labelIds[i] = cache[args[i]]
            /\ vocabulary(args[i]) => dir.labelIds[i] = SystemIdOf[args[i]]
            /\ unknown(args[i]) =>
                 /\ args[i] \in dir.created
                 /\ [id |-> dir.labelIds[i], name |-> args[i]] \in dir.remoteLabels
       /\ (\A i \in 1..Len(args) : ~unknown(args[i])) =>
            /\ dir.creates = dir.last.creates
            /\ dir.lists_create = 0
            /\ Len(dir.labelIds) = Len(args)
       /\ (\E i \in 1..Len(args) : unknown(args[i])) => dir.creates > dir.last.creates
       /\ OnlyWork =>
            \A i \in 1..Len(dir.labelIds) :
              /\ args[i] = <<"work", "mixed">> => dir.labelIds[i] = <<"label_1", "mixed">>
              /\ args[i] = <<"chat", "lower">> => dir.labelIds[i] = <<"chat", "upper">>
              /\ args[i] = <<"spam", "lower">> => dir.labelIds[i] = <<"spam", "upper">>
       /\ OnlyWork /\ (\E i \in 1..Len(args) : args[i] = <<"projects", "mixed">>) =>
            dir.creates > dir.last.creates

\* With the cache holding only Work -> Label_1, a call created 'Projects',
\* and the next call, with the cache as it was loaded and 'Projects' added,
\* resolved 'chats' to CHAT without a remote call.
C16_Witness ==
  /\ Resolved
  /\ DOMAIN dir.last.cache = {<<"work", "mixed">>, <<"projects", "mixed">>}
  /\ dir.last.cache[<<"work", "mixed">>] = <<"label_1", "mixed">>
  /\ dir.last.cache[<<"projects", "mixed">>] = <<"projects", "new">>
  /\ [id |-> <<"projects", "new">>, name |-> <<"projects", "mixed">>] \in dir.remoteLabels
  /\ dir.last.args = << <<"chats", "mixed">> >>
  /\ dir.labelIds = << <<"chat", "upper">> >>
  /\ dir.creates = dir.last.creates
  /\ dir.lists_ids = 1 /\ dir.lists_create = 0


\* C17: once labelsToLabelIds has created a label for a name, the cache
\* allLabelIds holds that name for the rest of the run: a later
\* labelsToLabelIds gives the name the same id, and a call that asks only for
\* such names makes no list call and no create call; no step removes an entry
\* of allLabelIds or changes the id it holds.
C17_CreatedStaysCached ==
  [][(dir # NoneRec /\ dir' # NoneRec) =>
       /\ \A n \in DOMAIN dir.allLabelIds :
            n \in DOMAIN dir'.allLabelIds /\ dir'.allLabelIds[n] = dir.allLabelIds[n]
       /\ \A n \in dir'.created : n \in DOMAIN dir'.allLabelIds
       /\ (dir'.lookups = dir.lookups + 1 /\ dir'.last.op = "labelsToLabelIds") =>
            LET args == dir'.last.args
            IN /\ \A i \in 1..Len(dir'.labelIds) :
                    args[i] \in dir.created => dir'.labelIds[i] = dir.allLabelIds[args[i]]
               /\ (\A i \in 1..Len(args) : args[i] \in dir.created) =>
                    /\ Len(dir'.labelIds) = Len(args)
                    /\ dir'.creates = dir.creates
                    /\ dir'.lists_ids = dir.lists_ids
                    /\ dir'.lists_create = dir.lists_create]_vars

\* A label was created for 'Projects' by an earlier call, and the last call
\* resolved 'Projects' to the id of that label without any remote call.
C17_Witness ==
  /\ Resolved
  /\ dir.last.args = << <<"projects", "mixed">> >>
  /\ <<"projects", "mixed">> \in dir.last.created
  /\ dir.labelIds = << <<"projects", "new">> >>
  /\ dir.creates = dir.last.creates
  /\ dir.lists_ids + dir.lists_create = dir.last.lists


\* C18: in one run the remote label list is loaded once for each cache, on
\* the first use of that cache, and never again, whatever the remote label
\* list holds and whatever names or ids are looked up: labelsToLabelIds has
\* listed once when it was called at all, and so has labelIdsToLabels.
C18_ListLoadedOncePerCache ==
  dir # NoneRec =>
    /\ dir.lists_ids = (IF dir.uses_ids > 0 THEN 1 ELSE 0)
    /\ dir.lists_names = (IF dir.uses_names > 0 THEN 1 ELSE 0)


\* C19: when labelsToLabelIds has to create a label and the remote already
\* holds a label of that name in some case, the create is refused, yet label
\* creation does not fail: the labels are listed afresh and the name is given
\* the id of the remote label whose name equals it whatever the case.
C19_ExistingLabelIsAdopted ==
  Resolved =>
    LET args == dir.last.args
        needs_create(n) == n \notin DOMAIN dir.last.cache /\ n \notin DOMAIN SystemIdOf
    IN \A i \in 1..Len(args) :
         (/\ needs_create(args[i])
          /\ args[i] \in dir.last.taken
          /\ \A j \in 1..(i - 1) : ~needs_create(args[j])) =>
           /\ dir.pc = "run"
           /\ dir.lists_create > 0
           /\ Len(dir.labelIds) >= i
           /\ \E l \in dir.remoteLabels :
                Lower(l.name) = Lower(args[i]) /\ dir.labelIds[i] = l.id


----------------------------------------------------------------------------
(* Properties of the start of a run under SpecBoot *)

\* The run started on an existing ledger whose version stands for a greater
\* number than the current version.
TooNew ==
  /\ boot # NoneRec /\ boot.isfile
  /\ NumberOf(boot.file_version) > NumberOf(__db_schema_version__)

\* The run is over or has reached execute_action.
BootSettled ==
  boot.pc \in {"exit", "TypeError", "OperationalError", "NameError", "execute", "done"}

\* C20 as stated: a ledger whose version is greater than the current one is
\* refused for every action: the run ends with a fatal exit code and has
\* written nothing to the ledger.
C20_TooNewRefusedForEveryAction ==
  (TooNew /\ BootSettled) =>
    boot.pc = "exit" /\ boot.exit_code # 0 /\ boot.wrote = {}

\* C20, amended: a ledger whose version is greater than the current one is
\* refused for every action that opens the ledger: the run ends in
\* check_db_settings with exit code 4, before any other step on the ledger;
\* and whatever the action, a run on such a ledger writes nothing to it.
C20_TooNewRefusedWhenOpened ==
  TooNew =>
    /\ boot.wrote = {}
    /\ (boot.opened /\ boot.pc # "check") =>
         boot.pc = "exit" /\ boot.exit_code = 4 /\ boot.checked
    /\ (BootSettled /\ OpensLedger(boot.action, boot.isfile) /\ boot.authorized) =>
         boot.opened /\ boot.exit_code = 4

\* A reindex on a ledger of version '10', which is below '6' as text, was
\* refused with exit code 4.
C20_Witness ==
  /\ TooNew
  /\ boot.action = "reindex" /\ boot.file_version = <<1, 0>>
  /\ boot.opened /\ boot.pc = "exit" /\ boot.exit_code = 4

\* The run started on an existing ledger whose version stands for a smaller
\* number than the minimum for restores.
TooOld ==
  /\ boot # NoneRec /\ boot.isfile
  /\ NumberOf(boot.file_version) < NumberOf(__db_schema_min_version__)

\* C21: a ledger whose version is below the minimum for restores aborts a
\* restore action, whereas a non-restore action that opens the same ledger
\* (with the right account) converts it to the current version and goes on
\* to the action.
C21_OldLedgerUpgradedForBackup ==
  (TooOld /\ BootSettled /\ boot.opened) =>
    IF boot.action \in RestoreActionNames
    THEN boot.pc = "exit" /\ boot.exit_code # 0
    ELSE SameAccount(boot.email, boot.file_email) =>
           /\ "convertDB" \in boot.wrote
           /\ boot.pc \in {"execute", "done"} \/ (boot.pc = "exit" /\ boot.exit_code = 0)

\* check_db_settings has rejected the ledger: its version (exit code 4) or
\* its account (exit code 5).
LedgerRejected ==
  boot # NoneRec /\ boot.checked /\ boot.pc = "exit" /\ boot.exit_code \in {4, 5}

\* C22: when the version or the account of the ledger is rejected, the run
\* has made no remote call: the validation of the ledger comes before the
\* first remote call of the run.
C22_RejectedBeforeAnyRemoteCall == LedgerRejected => boot.calls = << >>

\* The run is on an existing ledger of the current version whose account is
\* another one than --email, whatever the case of the letters.
OtherAccount ==
  /\ boot # NoneRec /\ boot.isfile /\ boot.authorized
  /\ boot.file_version = __db_schema_version__
  /\ boot.file_email[1] # boot.email[1]

\* C23 as stated: every non-restore action on a ledger of another account
\* ends with the exit code of the account mismatch.
C23_OtherAccountRefusedForEveryAction ==
  (OtherAccount /\ BootSettled /\ boot.action \notin RestoreActionNames) =>
    boot.pc = "exit" /\ boot.exit_code = 5

\* C23, amended: for every non-restore action that opens the ledger, once
\* the version is accepted, the account of the run is compared with the
\* email_address of the ledger without regard to case: another account ends
\* the run with exit code 5 before anything is written to the ledger, the
\* same account does not; a restore action is not ended by another account;
\* and the email_address of an open ledger is the one it was created with.
C23_OtherAccountRefusedWhenOpened ==
  (boot # NoneRec /\ boot.opened) =>
    /\ boot.email_address = (IF boot.isfile THEN boot.file_email ELSE boot.email)
    /\ (boot.checked /\ ~(boot.pc = "exit" /\ boot.exit_code = 4)) =>
         IF boot.action \in RestoreActionNames
         THEN boot.pc # "exit"
         ELSE IF boot.email_address[1] # boot.email[1]
         THEN boot.pc = "exit" /\ boot.exit_code = 5 /\ boot.wrote = {}
         ELSE ~(boot.pc = "exit" /\ boot.exit_code = 5)

\* A backup as A@Example.com on the ledger of a@example.com passed the check
\* of the account.
C23_Witness ==
  /\ boot # NoneRec /\ boot.checked /\ boot.action = "backup"
  /\ boot.email = <<"a@example.com", "mixed">>
  /\ boot.email_address = <<"a@example.com", "lower">>
  /\ boot.pc = "execute"

\* The exit codes the code uses for each of the five fatal conditions:
\* a refused schema version, another account, a token that cannot be
\* refreshed, no network, a local file that cannot be read or written.
FatalCodes ==
  [c \in {"schema", "account", "refresh", "network", "file"} |->
     IF c = "schema" THEN {SchemaExitCode}
     ELSE IF c = "account" THEN {AccountExitCode}
     ELSE IF c = "file" THEN {FileExitCode}
     ELSE {CallExitCode(c), ServiceExitCode(c)}]

\* C24: schema-too-new, account mismatch, credential failure, network
\* unreachable and local-file failure end the process with pairwise
\* different non-zero exit codes: the exit code of a run ended by one of
\* them is not zero and is no exit code of another of them.
C24_ExitCodeIdentifiesCause ==
  (boot # NoneRec /\ boot.pc = "exit" /\ boot.cause \in DOMAIN FatalCodes) =>
    /\ boot.exit_code # 0
    /\ \A c \in DOMAIN FatalCodes \ {boot.cause} : boot.exit_code \notin FatalCodes[c]


----------------------------------------------------------------------------
(* Properties of a whole run under SpecRun *)

\* A run that ended without reaching its end: a backup leaves hist.prev
\* unset, a restore leaves hist.interrupted set.
RunAborted ==
  /\ hist.runs > 0
  /\ IF boot.action = "backup" THEN hist.prev = NoneRec ELSE hist.interrupted

\* The phase of the run, read from where main stands and where the loop
\* inside execute_action stands.
RunPhase ==
  IF \/ boot.pc \in {"TypeError", "OperationalError", "NameError"}
     \/ boot.pc = "exit" /\ boot.exit_code # 0
  THEN "Aborted"
  ELSE IF boot.pc = "exit" THEN "Done"
  ELSE IF boot.pc \notin {"execute", "done"} THEN "Initializing"
  ELSE IF run.phase = "diffing" THEN "Diffing"
  ELSE IF run.phase \in {"transfer", "refresh"} THEN "Transferring"
  ELSE IF run.phase = "finalizing" THEN "Finalizing"
  ELSE IF hist.runs = 0 THEN "Initializing"
  ELSE IF RunAborted THEN "Aborted"
  ELSE "Done"

\* The steps forward: a restore has no listing to diff and goes from
\* Initializing to Transferring.
PhaseSteps ==
  {<<"Initializing", "Diffing">>, <<"Diffing", "Transferring">>,
   <<"Transferring", "Finalizing">>, <<"Finalizing", "Done">>}
  \cup (IF boot.action \in RestoreActions
        THEN {<<"Initializing", "Transferring">>} ELSE {})

----------------------------------------------------------------------------
(* Further properties of callGAPIpages under SpecPages *)

\* C31: when callGAPI returns None for a page request (a soft error), the
\* listing returns at once: what was collected from the earlier pages and
\* the running total stay as they were and are the result, the listing ends
\* as one that reached its last page ("done", not "failed"), and no request
\* follows a listing that has returned.
C31_SoftErrorEndsListingSilently ==
  [][ /\ PageSoftError =>
           /\ paging'.pc = "done"
           /\ paging'.all_pages = paging.all_pages
           /\ paging'.total_items = paging.total_items
           /\ paging'.received = Append(paging.received, EmptyPage)
           /\ paging'.pageToken = paging.pageToken
      /\ (paging # NoneRec /\ paging.pc = "done") => paging' = paging
    ]_vars

\* A listing has returned the items of its first pages after the request
\* for a later page, which the remote holds with a cursor, ended as a soft
\* error: pages of the remote were never asked for.
C31_Witness ==
  /\ paging # NoneRec /\ paging.pc = "done"
  /\ Len(paging.received) >= 2
  /\ paging.received[Len(paging.received)] = EmptyPage
  /\ paging.pages[Len(paging.received)].has_token
  /\ Len(paging.pages) > Len(paging.received)
  /\ paging.all_pages # << >>
  /\ paging.all_pages = ItemsOfPages(paging.received, Len(paging.received) - 1)


----------------------------------------------------------------------------
(* Properties of restores under SpecRestore *)

\* C32: in a restore the messages attempted so far and those outstanding
\* are together the ledger's entries without a marker, or, after
\* --noresume, all its entries; they are taken in the order of the ledger;
\* and re-inserting a message that has a marker already, by either restore
\* path, raises no error and leaves the message with exactly one marker.
C32_RestoreOutstandingAndRemarking ==
  (run.action \in RestoreActions /\ run.phase = "transfer") =>
    /\ run.attempted \cup run.outstanding =
         IF run.noresume THEN run.startMessages
         ELSE run.startMessages \ run.startMarkers
    /\ \A a \in run.attempted, o \in run.outstanding : Rank(a) < Rank(o)
    /\ \A m \in MsgIds : Markers(ledger, m) <= 1
    /\ \A m \in run.batch :
         Markers(ledger, m) = 1 =>
           LET W == restored_message(World, m, [id |-> m], None)
           IN ~W.raised /\ Markers(W.ledger, m) = 1
    /\ (run.action = "restore-group" /\ run.outstanding # {}) =>
         LET m == First(run.outstanding)
             r == restore_msg_to_group(ledger, committed, m, "SUCCESS")
         IN Markers(ledger, m) = 1 =>
              ~r.raised /\ Markers(r.ledger, m) = 1


----------------------------------------------------------------------------
(* Properties of the callbacks within one batch, under SpecRun *)

\* What may come back for item m: the message, nothing, or an exception.
Outcomes(m) == {<<Fetched(m), None>>, <<NoneRec, None>>, <<NoneRec, "HttpError">>}

\* The ledger after callback F has taken outcome oa of item a and then
\* outcome ob of item b.
AfterBoth(F(_, _, _, _), W, a, oa, b, ob) ==
  F(F(W, a, oa[1], oa[2]), b, ob[1], ob[2]).ledger

\* Callback F leaves the same ledger whichever of the two outcomes it takes
\* first, for every pair of distinct items and every pair of outcomes.
OrderFree(F(_, _, _, _), W) ==
  \A a, b \in MsgIds :
    a # b =>
      \A oa \in Outcomes(a), ob \in Outcomes(b) :
        AfterBoth(F, W, a, oa, b, ob) = AfterBoth(F, W, b, ob, a, oa)

\* The ledger L after the callback of the running action has taken the
\* successful outcomes of the items S in the order of the listing.
RECURSIVE InListingOrder(_, _)
InListingOrder(L, S) ==
  IF S = {} THEN L
  ELSE LET m == First(S)
           W == [ledger |-> L, files |-> files, backup_count |-> 0, raised |-> FALSE]
       IN InListingOrder(RunCallback(W, m).ledger, S \ {m})

\* C33: for items with distinct ids the ledger does not depend on the order
\* of the callbacks: from every state each callback leaves the same rows
\* for either order of two outcomes, and while a batch resolves, in
\* whatever order its items do, the ledger is the one that the successful
\* outcomes so far leave when taken in the order of the listing.
C33_CallbackOrderIsImmaterial ==
  /\ OrderFree(backup_message, World)
  /\ OrderFree(backup_chat, World)
  /\ OrderFree(refresh_message, World)
  /\ OrderFree(restored_message, World)
  /\ (run.inbatch /\ run.action # "restore-group") =>
       ledger = InListingOrder(run.before, run.succeeded)

\* A backup batch of two messages has resolved, in either order: both are
\* recorded with their labels.
C33_Witness ==
  /\ run.action = "backup" /\ run.phase = "transfer"
  /\ run.inbatch /\ run.batch = {}
  /\ Cardinality(run.succeeded) = 2
  /\ \A m \in run.succeeded : LabelsOf(ledger, m) = remote[m] /\ remote[m] # {}


----------------------------------------------------------------------------
(* Further properties of the label lookups under SpecLabels *)

\* A name outside the system and reserved vocabulary: a user label.
UserLabel(n) == n \notin DOMAIN SystemIdOf

\* C34: when labelsToLabelIds has returned, labelIdsToLabels of the ids it
\* gave returns, for every user label among the names, that name: also
\* when the call created the label and the id-to-name cache had been loaded
\* before.
C34_NamesOfResolvedIds ==
  (Resolved /\ dir.pc = "run") =>
    LET back == labelIdsToLabels(dir, dir.labelIds).labelIds
    IN \A i \in 1..Len(dir.last.args) :
         UserLabel(dir.last.args[i]) => back[i] = dir.last.args[i]


----------------------------------------------------------------------------
(* Further properties of a whole run under SpecRun *)

\* The ledger the run found in the folder.
StartLedger == IF boot.isfile THEN StoredLedger ELSE EmptyLedger

\* The messages recorded since the run started.
AddedRecords == MessageNums(ledger) \ MessageNums(StartLedger)

\* C35: throughout a backup, and so at its end where the count is reported,
\* backup_count is the number of message records the run has added to the
\* ledger: an outcome counts when, and only when, it inserted a record.
C35_CountIsRecordsAdded ==
  (boot # NoneRec /\ run.action = "backup" /\ run.phase # "idle") =>
    backup_count = Cardinality(AddedRecords)


----------------------------------------------------------------------------
(* Properties of the backup callbacks step by step, under SpecWrite *)

\* Every message row of L names a file of the folder.
RecordsHaveFiles(L) ==
  \A r \in BagToSet(L.messages) : r.message_filename \in files

\* C36: the backup callbacks write the file before they insert the record:
\* in every state, between the two steps and after an interruption too,
\* each record of the ledger, and of what is committed of it, names a file
\* that exists; and the two steps together are the callback.
C36_FileBeforeRecord ==
  /\ RecordsHaveFiles(ledger)
  /\ RecordsHaveFiles(committed)
  /\ \A m \in run.batch :
       /\ CallbackFilename(run.action, m, m) \in files
       /\ MessageRows(ledger, m) = {}
  /\ \A m \in MsgIds :
       /\ InsertBackupRecord(WriteBackupFile(World, "backup", m, Fetched(m)),
                             "backup", m, Fetched(m))
            = backup_message(World, m, Fetched(m), None)
       /\ InsertBackupRecord(WriteBackupFile(World, "backup-chat", m, Fetched(m)),
                             "backup-chat", m, Fetched(m))
            = backup_chat(World, m, Fetched(m), None)

\* The process was interrupted between the two steps of a callback whose
\* insert would have gone through: the file of the message is there, its
\* record is not, and an earlier message is recorded with its file.
C36_Witness ==
  /\ run.phase = "idle"
  /\ \E m \in StoredIds :
       /\ EmlFile(m) \in files
       /\ MessageRows(ledger, m) = {}
  /\ \E r \in BagToSet(ledger.messages) : r.message_filename \in files


\* C37: a page the remote serves with no items, or without the items key,
\* does not make the listing fail: the pass over it leaves the running
\* total and the collected items as they were and the listing goes on or
\* returns as the cursor of the page says; and after every page the running
\* total is the number of items collected.
C37_EmptyPagesAreTolerated ==
  [][ (paging # NoneRec /\ paging.pc = "request" /\ PageReturned) =>
        LET served == Served(paging.pages, paging.pageToken)
        IN /\ paging'.total_items = Len(paging'.all_pages)
           /\ (~served.has_items \/ Len(served.items) = 0) =>
                /\ paging'.pc = (IF served.has_token THEN "request" ELSE "done")
                /\ paging'.total_items = paging.total_items
                /\ paging'.all_pages = paging.all_pages
                /\ Len(paging'.received) = Len(paging.received) + 1
    ]_vars

\* A listing has returned after a page with items, a page without the
\* items key and a page with an empty item list: total and result are the
\* items of the first page.
C37_Witness ==
  /\ paging # NoneRec /\ paging.pc = "done"
  /\ Len(paging.received) = 3
  /\ paging.pages[1].has_items /\ Len(paging.pages[1].items) > 0
  /\ ~paging.pages[2].has_items
  /\ paging.pages[3].has_items /\ Len(paging.pages[3].items) = 0
  /\ paging.received = paging.pages
  /\ paging.total_items = Len(paging.pages[1].items)
  /\ paging.all_pages = paging.pages[1].items


----------------------------------------------------------------------------
(* Further properties of main under SpecBoot *)

\* The steps for the versions above v, in increasing order.
StepsAbove(v) ==
  LET above(n) == NumberOf(v) < n
  IN SelectSeq(MigrationSteps, above)

----------------------------------------------------------------------------
(* Properties of the Diffing lookups under SpecLookup *)

\* The rows of the ledger L that belong to messages other than m.
RowsOfOthers(L, m) ==
  [messages |-> {r \in BagToSet(L.messages) : r.message_num # m},
   labels |-> {<<p, CopiesIn(p, L.labels)>> :
                 p \in {q \in BagToSet(L.labels) : q[1] # m}},
   uids |-> {<<p, CopiesIn(p, L.uids)>> :
               p \in {q \in BagToSet(L.uids) : q[1] # m}},
   restored_messages |-> {<<n, CopiesIn(n, L.restored_messages)>> :
                            n \in BagToSet(L.restored_messages) \ {m}}]

\* A step of Diffing that looks m up.
LooksUp(m) ==
  /\ run.phase = "diffing"
  /\ run.tolookup # {}
  /\ m = First(run.tolookup)
  /\ run'.phase \in {"diffing", "transfer"}
  /\ run'.tolookup = run.tolookup \ {m}

\* C39: the lookup of m changes no row of another message and nothing of
\* the settings main has read or the file holds; when m has a record whose
\* file exists, or has no record, the ledger is left as it was.
C39_LookupTouchesOnlyItsMessage ==
  [][\A m \in MsgIds :
       LooksUp(m) =>
         /\ RowsOfOthers(ledger', m) = RowsOfOthers(ledger, m)
         /\ boot' = boot
         /\ ( \/ MessageRows(ledger, m) = {}
              \/ EmlFile(m) \in files ) => ledger' = ledger]_vars

\* A lookup has removed the entry of a message whose file was gone while
\* another message keeps its record, and a message with no record has been
\* looked up too.
C39_Witness ==
  /\ run.repaired # {}
  /\ MessageNums(ledger) # {}
  /\ \E m \in MsgIds \ run.tolookup :
       m \notin run.repaired /\ m \notin MessageNums(ledger)

====
